---- MODULE Spec2Model ----
(***************************************************************************)
(* Model of ui/shared/due-dates/react/AssignToContent.jsx: the override /  *)
(* card reconciler (AssignToContent) and the tray content that drives it   *)
(* (ItemAssignToTrayContent).                                              *)
(*                                                                         *)
(* JavaScript values are encoded as follows.  An absent (undefined) field  *)
(* of an override is 0 (ids, keys of sections, groups, modules), FALSE     *)
(* (flags) or the pair has_student_ids = FALSE / student_ids = <<>>; a     *)
(* date is 0 for null, EmptyDate for the empty string '' and a positive    *)
(* number for a timestamp.  An assignee-option id such as "section-7" is   *)
(* the pair <<"section", 7>>: formatting builds the pair, split('-')[1]    *)
(* reads its second component.  A card map (object keyed by row key) is a  *)
(* sequence of entries in ascending key order, the enumeration order of a  *)
(* JavaScript object with integer-like keys.  A card id is always a string *)
(* (a key of the card map); the rowKey an override stores is a string or a *)
(* number, and rowKeyIsNumber tells which: String(rowKey) and              *)
(* rowKey.toString() compare the key alone, === and !== also the type.     *)
(***************************************************************************)
EXTENDS Integers, Sequences, FiniteSets, TLC

\* ---------------------------------------------------------------- bounds
\* uid() is called at most MaxUid times
MaxUid == 5
\* user operations in one run
MaxOps == 3
\* date edits among them
MaxDateEdits == 1
\* operations on a tray that stands alone
MaxTrayOps == 5

\* ------------------------------------------------------------- encodings
NoKey == 99
NoIndex == 98
EmptyDate == 97
defaultSectionId == 9
ModuleId == 3

Everyone == <<"everyone", 0>>
MasteryPaths == <<"mastery_paths", 0>>
SectionOption(id) == <<"section", id>>
StudentOption(id) == <<"student", id>>
GroupOption(id) == <<"group", id>>

DateTypes == {"due_at", "unlock_at", "lock_at"}

\* ------------------------------------------------------- sequence helpers
Range(s) == {s[i] : i \in 1..Len(s)}

Includes(s, x) == \E i \in 1..Len(s) : s[i] = x

Filter(s, P(_)) == SelectSeq(s, P)

RECURSIVE Flatten(_)
Flatten(ss) == IF ss = <<>> THEN <<>> ELSE Head(ss) \o Flatten(Tail(ss))

\* [...new Set(list)]: first occurrences, in order
RECURSIVE Unique(_)
Unique(s) ==
  IF s = <<>> THEN <<>>
  ELSE LET init == Unique(SubSeq(s, 1, Len(s) - 1))
           last == s[Len(s)]
       IN IF Includes(init, last) THEN init ELSE Append(init, last)

RECURSIVE SortedSeq(_)
SortedSeq(S) ==
  IF S = {} THEN <<>>
  ELSE LET m == CHOOSE x \in S : \A y \in S : x <= y
       IN <<m>> \o SortedSeq(S \ {m})

\* ------------------------------------------------------------- overrides
BlankOverride ==
  [ id |-> 0, stagedOverrideId |-> 0, rowKey |-> NoKey, rowKeyIsNumber |-> FALSE,
    has_student_ids |-> FALSE, student_ids |-> <<>>, students |-> FALSE,
    course_section_id |-> 0, group_id |-> 0, noop_id |-> 0, course_id |-> 0,
    due_at |-> 0, unlock_at |-> 0, lock_at |-> 0,
    context_module_id |-> 0, unassign_item |-> FALSE,
    draft |-> FALSE, index |-> NoIndex ]

\* the test both generateCard and the sync effect apply to an override
HasAssigneeField(o) ==
  \/ o.course_section_id # 0
  \/ o.has_student_ids
  \/ o.noop_id # 0
  \/ o.course_id # 0
  \/ o.group_id # 0

datesFromOverride(o) ==
  [due_at |-> o.due_at, unlock_at |-> o.unlock_at, lock_at |-> o.lock_at]

NullDates == [due_at |-> 0, unlock_at |-> 0, lock_at |-> 0]

\* -------------------------------------------------------------- card maps
CardKeys(cardMap) == {cardMap[i].key : i \in 1..Len(cardMap)}

HasCard(cardMap, k) == \E i \in 1..Len(cardMap) : cardMap[i].key = k

CardAt(cardMap, k) == cardMap[CHOOSE i \in 1..Len(cardMap) : cardMap[i].key = k]

sortedRowKeys(cardMap) == SortedSeq(CardKeys(cardMap))

getAllOverridesFromCards(cardMap) ==
  Flatten([i \in 1..Len(cardMap) |-> cardMap[i].overrides])

\* stable sort of projected cards by index (Array.prototype.sort with a - b)
RECURSIVE InsertByIndex(_, _)
InsertByIndex(sorted, c) ==
  IF sorted = <<>> THEN <<c>>
  ELSE IF sorted[Len(sorted)].index <= c.index THEN Append(sorted, c)
  ELSE Append(InsertByIndex(SubSeq(sorted, 1, Len(sorted) - 1), c), sorted[Len(sorted)])

RECURSIVE SortByIndex(_)
SortByIndex(s) ==
  IF s = <<>> THEN <<>>
  ELSE InsertByIndex(SortByIndex(SubSeq(s, 1, Len(s) - 1)), s[Len(s)])

\* ------------------------------------------ helpers of differentiatedModulesUtil
\* one card per distinct row key, overrides of a card in list order, dates of
\* the first override; a card that already exists keeps its index, a new one
\* takes the index its override carries, else its position
RowKeysOf(list) == {list[i].rowKey : i \in 1..Len(list)} \ {NoKey}

getParsedOverrides(list, cardMap) ==
  LET keys == SortedSeq(RowKeysOf(list))
      entry(p) ==
        LET k == keys[p]
            ovs == Filter(list, LAMBDA o : o.rowKey = k)
        IN [ key |-> k,
             overrides |-> ovs,
             dates |-> datesFromOverride(ovs[1]),
             index |-> IF HasCard(cardMap, k) /\ CardAt(cardMap, k).index # NoIndex
                         THEN CardAt(cardMap, k).index
                       ELSE IF ovs[1].index # NoIndex THEN ovs[1].index
                       ELSE p - 1 ]
  IN [p \in 1..Len(keys) |-> entry(p)]

\* students and sections that an explicit (non-module) override targets
OverriddenStudents(list) ==
  UNION {Range(list[i].student_ids) : i \in {j \in 1..Len(list) : list[j].context_module_id = 0}}

OverriddenSections(list) ==
  {list[i].course_section_id : i \in {j \in 1..Len(list) : list[j].context_module_id = 0}} \ {0}

\* a module override loses the students an explicit override of the incoming
\* list targets; a module override with no target left, and a card with no
\* override left, is dropped
removeOverriddenAssignees(propOverrides, parsed) ==
  LET students == OverriddenStudents(propOverrides)
      sections == OverriddenSections(propOverrides)
      strip(o) ==
        IF o.context_module_id # 0 /\ o.has_student_ids
          THEN [o EXCEPT !.student_ids = Filter(@, LAMBDA s : s \notin students)]
          ELSE o
      superseded(o) ==
        /\ o.context_module_id # 0
        /\ \/ o.has_student_ids /\ o.student_ids # <<>>
                 /\ Range(o.student_ids) \subseteq students
           \/ o.course_section_id # 0 /\ o.course_section_id \in sections
      clean(card) ==
        [card EXCEPT !.overrides =
           [i \in 1..Len(Filter(card.overrides, LAMBDA o : ~superseded(o))) |->
              strip(Filter(card.overrides, LAMBDA o : ~superseded(o))[i])]]
      cleaned == [i \in 1..Len(parsed) |-> clean(parsed[i])]
  IN Filter(cleaned, LAMBDA c : c.overrides # <<>>)

\* an override that still equals an entry of the initial module overrides is
\* left untouched; a module override that was edited becomes an explicit one
processModuleOverridesV2(list, initialModule) ==
  [i \in 1..Len(list) |->
     IF list[i].context_module_id # 0 /\ ~Includes(initialModule, list[i])
       THEN [list[i] EXCEPT !.context_module_id = 0, !.id = 0]
       ELSE list[i]]

\* resetOverrides(target, source): target's content becomes source's
resetOverrides(target, source) == source

\* the assignee a card-assignment change reports (parsedCard); Empty is {}
EmptyAssignee ==
  [ empty |-> TRUE, id |-> 0, course_section_id |-> 0, group_id |-> 0,
    noop_id |-> 0, course_id |-> 0 ]

IsStudentAssignee(a) ==
  ~a.empty /\ a.course_section_id = 0 /\ a.group_id = 0 /\ a.noop_id = 0 /\ a.course_id = 0

\* CardActions.handleAssigneeAdd: the card's overrides followed by the new
\* one; a student joins the card's ad-hoc override when there is one
NewOverrideFor(a, cardId, dates) ==
  [ BlankOverride EXCEPT
      !.rowKey = cardId,
      !.has_student_ids = (a.empty \/ IsStudentAssignee(a)),
      !.student_ids = IF IsStudentAssignee(a) THEN <<a.id>> ELSE <<>>,
      !.students = IsStudentAssignee(a),
      !.course_section_id = a.course_section_id,
      !.group_id = a.group_id,
      !.noop_id = a.noop_id,
      !.course_id = a.course_id,
      !.due_at = dates.due_at,
      !.unlock_at = dates.unlock_at,
      !.lock_at = dates.lock_at ]

CardActionsHandleAssigneeAdd(a, cardOverrides, cardId, dates) ==
  LET adhoc == Filter(cardOverrides, LAMBDA o : o.has_student_ids)
  IN IF IsStudentAssignee(a) /\ adhoc # <<>>
       THEN Append(Filter(cardOverrides, LAMBDA o : o # adhoc[1]),
                   [adhoc[1] EXCEPT !.student_ids = Append(@, a.id)])
       ELSE Append(cardOverrides, NewOverrideFor(a, cardId, dates))

\* a deleted assignee as the tray reports it (parsedDeletedCard entries)
DeletedAssignee(type, id) ==
  [ type |-> type,
    course_section_id |-> IF type = "everyone" THEN defaultSectionId
                          ELSE IF type = "section" THEN id ELSE 0,
    student_id |-> IF type = "student" THEN id ELSE 0,
    group_id |-> IF type = "group" THEN id ELSE 0,
    noop_id |-> IF type = "mastery_paths" THEN 1 ELSE 0 ]

\* CardActions.handleAssigneeRemove: the card's overrides without the target
CardActionsHandleAssigneeRemove(token, cardOverrides) ==
  LET without(o) ==
        IF token.student_id # 0 /\ o.has_student_ids
          THEN [o EXCEPT !.student_ids = Filter(@, LAMBDA s : s # token.student_id)]
          ELSE o
      gone(o) ==
        \/ token.course_section_id # 0 /\ o.course_section_id = token.course_section_id
        \/ token.type = "everyone" /\ o.course_id # 0
        \/ token.group_id # 0 /\ o.group_id = token.group_id
        \/ token.noop_id # 0 /\ o.noop_id = token.noop_id
        \/ token.student_id # 0 /\ o.has_student_ids /\ without(o).student_ids = <<>>
      kept == Filter(cardOverrides, LAMBDA o : ~gone(o))
  IN [i \in 1..Len(kept) |-> without(kept[i])]

\* DateValidator.validateDatetimes: whether the dates raise an error
IsSet(d) == d # 0 /\ d # EmptyDate

HasDateErrors(dates) ==
  \/ IsSet(dates.unlock_at) /\ IsSet(dates.lock_at) /\ dates.lock_at < dates.unlock_at
  \/ IsSet(dates.due_at) /\ IsSet(dates.lock_at) /\ dates.lock_at < dates.due_at
  \/ IsSet(dates.due_at) /\ IsSet(dates.unlock_at) /\ dates.due_at < dates.unlock_at


\* =========================================================== AssignToContent
VARIABLES
  overrides,              \* the overrides prop
  stagedCards,            \* useState([])
  stagedOverrides,        \* useState(null)
  initialState,           \* useState(null)
  disabledOptionIds,      \* useState([])
  hasModuleOverrides,     \* useState(false)
  moduleAssignees,        \* useState([])
  initialModuleOverrides, \* useState([])
  stagedCardsRef,         \* useRef(stagedCards)
  stagedOverridesRef,     \* useRef(stagedOverrides)
  cards,                  \* the memoised card projection
  nextUid,                \* the next value uid() returns
  due,                    \* what the next render has to run
  synced,                 \* the arguments of the onSync calls of the last commit
  assignToCards,          \* the tray's cards (state and ref)
  disabledOptionIdsRef,   \* the tray's disabled-option ids
  stagedImportantDates,   \* useState(importantDates)
  initialCards,           \* the tray's snapshot of the fetched cards
  lastOp,                 \* the last operation and its arguments
  ops,                    \* user operations so far
  dateEdits               \* date edits so far

\* ItemAssignToTrayContent: its props, its fetch state and what it calls
VARIABLES
  props,                  \* courseId, itemType, itemContentId, defaultCards
  mounted,                \* the effects of the first render have run
  fetches,                \* the fetchAllPages calls, in the order they started
  fetchInFlight,          \* useState(false)
  hasFetched,             \* useState(false)
  initialLoadRef,         \* the owner's ref
  blueprintDateLocks,     \* what setBlueprintDateLocks was last given
  overridesFetched,       \* what setOverridesFetched was last given
  groupCategoryId,        \* what setGroupCategoryId was last given
  flashErrors,            \* showFlashError calls
  dismissals,             \* handleDismiss calls
  propChanges             \* prop changes so far

FetchVars ==
  << props, mounted, fetches, fetchInFlight, hasFetched, initialLoadRef,
     blueprintDateLocks, overridesFetched, groupCategoryId, flashErrors, dismissals,
     propChanges >>

vars ==
  << overrides, stagedCards, stagedOverrides, initialState, disabledOptionIds,
     hasModuleOverrides, moduleAssignees, initialModuleOverrides, stagedCardsRef,
     stagedOverridesRef, cards, nextUid, due, synced, assignToCards,
     disabledOptionIdsRef, stagedImportantDates,
     initialCards, lastOp, ops, dateEdits, FetchVars >>

Null == [null |-> TRUE, value |-> <<>>]
Some(v) == [null |-> FALSE, value |-> v]

\* 627-633; itemContentId 0 is undefined, defaultCards Null is undefined
TrayProps(courseId, itemType, itemContentId, defaultCards) ==
  [ courseId |-> courseId, itemType |-> itemType, itemContentId |-> itemContentId,
    defaultCards |-> defaultCards ]

\* the tray of an item with no content id yet: neither fetch effect requests
\* anything (680, 793)
NoFetch(defaultCards) ==
  /\ props = TrayProps(1, "assignment", 0, defaultCards)
  /\ mounted = TRUE
  /\ fetches = <<>>
  /\ fetchInFlight = FALSE
  /\ hasFetched = FALSE
  /\ initialLoadRef = FALSE
  /\ blueprintDateLocks = Null
  /\ overridesFetched = TRUE
  /\ groupCategoryId = 0
  /\ flashErrors = 0
  /\ dismissals = 0
  /\ propChanges = 0

\* nothing left to render: the component is quiescent
\* an error thrown by an effect is caught by no error boundary of the
\* component: React unmounts it, and nothing of it runs afterwards
Unmounted ==
  [ mount |-> FALSE, overrides |-> FALSE, stagedOverrides |-> FALSE,
    stagedCards |-> FALSE, unmounted |-> TRUE ]

Idle ==
  /\ due # Unmounted
  /\ ~due.mount /\ ~due.overrides /\ ~due.stagedOverrides /\ ~due.stagedCards

\* ----------------------------------------------- useEffect[overrides], 109-120
RECURSIVE TagOverrides(_, _)
TagOverrides(list, next) ==
  IF list = <<>> THEN [list |-> <<>>, next |-> next]
  ELSE LET h == Head(list)
           lacking == h.stagedOverrideId = 0
           rest == TagOverrides(Tail(list), IF lacking THEN next + 1 ELSE next)
       IN [ list |-> <<IF lacking THEN [h EXCEPT !.stagedOverrideId = next] ELSE h>>
                       \o rest.list,
            next |-> rest.next ]

\* ------------------------------------------------------ cards (useMemo), 203-269
OptionsOfOverride(o) ==
  IF o.noop_id = 1 THEN <<MasteryPaths>>
  ELSE IF o.course_section_id = defaultSectionId THEN <<Everyone>>
  ELSE IF o.course_id # 0 THEN <<Everyone>>
  ELSE [i \in 1..Len(o.student_ids) |-> StudentOption(o.student_ids[i])]
       \o (IF o.course_section_id # 0 THEN <<SectionOption(o.course_section_id)>> ELSE <<>>)
       \o (IF o.group_id # 0 THEN <<GroupOption(o.group_id)>> ELSE <<>>)

\* defaultOptions after the first k overrides of a card
DefaultOptions(cardOverrides, k) ==
  Flatten([i \in 1..k |-> OptionsOfOverride(cardOverrides[i])])

\* what one card pushes on selectedOptionIds: defaultOptions after each override
PushedOptionIds_firstOnly(cardOverrides) == DefaultOptions(cardOverrides, 1)

PushedOptionIds(cardOverrides) ==
  Flatten([k \in 1..Len(cardOverrides) |-> DefaultOptions(cardOverrides, k)])

\* the options of a card's overrides, as a set
AssigneeSet(cardOverrides) == Range(DefaultOptions(cardOverrides, Len(cardOverrides)))

\* areCardsEqual: same dates and same assignees as the snapshot's card
areCardsEqual(snapshot, cardId, card) ==
  /\ ~snapshot.null
  /\ HasCard(snapshot.value, cardId)
  /\ CardAt(snapshot.value, cardId).dates = card.dates
  /\ AssigneeSet(CardAt(snapshot.value, cardId).overrides) = AssigneeSet(card.overrides)

\* card.index = 0 for the card holding the default-section override
IndexAfterRender(card) ==
  IF \E i \in 1..Len(card.overrides) :
       /\ card.overrides[i].noop_id # 1
       /\ card.overrides[i].course_section_id = defaultSectionId
    THEN 0
    ELSE card.index

IsValidCard(uniqueIds, dates) == Len(uniqueIds) > 0 /\ ~HasDateErrors(dates)

MappedCard(cardMap, snapshot, cardId) ==
  LET card == CardAt(cardMap, cardId)
      uniqueIds == Unique(DefaultOptions(card.overrides, Len(card.overrides)))
  IN [ key |-> cardId,
       isValid |-> IsValidCard(uniqueIds, card.dates),
       highlightCard |-> ~areCardsEqual(snapshot, cardId, card),
       hasAssignees |-> Len(uniqueIds) > 0,
       due_at |-> card.dates.due_at,
       unlock_at |-> card.dates.unlock_at,
       lock_at |-> card.dates.lock_at,
       selectedAssigneeIds |-> uniqueIds,
       index |-> IndexAfterRender(card),
       contextModuleId |-> IF card.overrides = <<>> THEN 0
                           ELSE card.overrides[1].context_module_id ]

SelectedOptionIds(cardMap) ==
  LET keys == sortedRowKeys(cardMap)
  IN Flatten([i \in 1..Len(keys) |-> PushedOptionIds(CardAt(cardMap, keys[i]).overrides)])

MemoCards(cardMap, snapshot) ==
  LET keys == sortedRowKeys(cardMap)
  IN SortByIndex([i \in 1..Len(keys) |-> MappedCard(cardMap, snapshot, keys[i])])

\* the card map after the render wrote card.index in place
CardsAfterRender(cardMap) ==
  [i \in 1..Len(cardMap) |-> [cardMap[i] EXCEPT !.index = IndexAfterRender(cardMap[i])]]

\* --------------------------------- useEffect[stagedOverrides] (project), 122-157
ProjectCards(propOverrides, list, cardMap) ==
  removeOverriddenAssignees(propOverrides, getParsedOverrides(list, cardMap))

ModuleOverridesOf(cardMap) ==
  Filter(getAllOverridesFromCards(cardMap), LAMBDA o : o.context_module_id # 0)

\* 143-153; an override with neither section nor students maps to undefined
Undefined == <<"undefined", 0>>

AllModuleAssignees(propOverrides) ==
  LET mods == Filter(propOverrides, LAMBDA o : o.context_module_id # 0)
      one(o) ==
        IF o.course_section_id # 0 THEN <<SectionOption(o.course_section_id)>>
        ELSE IF o.has_student_ids
          THEN [i \in 1..Len(o.student_ids) |-> StudentOption(o.student_ids[i])]
        ELSE <<Undefined>>
  IN Flatten([i \in 1..Len(mods) |-> one(mods[i])])

\* 131: the snapshot is taken by the projection that finds none
FirstProjection_every(projects, snapshot) == projects

FirstProjection(projects, snapshot) == projects /\ snapshot.null

\* 132: a deep copy shares nothing with the card map it is taken from
cloneObject(cardMap) == cardMap

\* ------------------------------------ useEffect[stagedOverrides] (sync), 159-201
UnassignStudents(ids) ==
  [BlankOverride EXCEPT !.has_student_ids = TRUE, !.student_ids = ids,
                        !.unassign_item = TRUE]

UnassignSection(id) ==
  [BlankOverride EXCEPT !.course_section_id = id, !.unassign_item = TRUE]

DeletedModuleAssignees(modAssignees, disabled) ==
  Filter(modAssignees, LAMBDA a : ~Includes(disabled, a))

\* 174-175: assignee.includes('student') on an undefined module assignee
SyncThrows(modAssignees, disabled) ==
  Includes(DeletedModuleAssignees(modAssignees, disabled), Undefined)

SyncOverrides(cardMapRef, modAssignees, disabled, initialModule) ==
  LET kept == Filter(getAllOverridesFromCards(cardMapRef), HasAssigneeField)
      deleted == DeletedModuleAssignees(modAssignees, disabled)
      students == Filter(deleted, LAMBDA a : a[1] = "student")
      studentIds == [i \in 1..Len(students) |-> students[i][2]]
      sections == Filter(deleted, LAMBDA a : a[1] = "section")
      withStudents == IF Len(studentIds) > 0
                        THEN Append(kept, UnassignStudents(studentIds))
                        ELSE kept
      newOverrides == withStudents
                        \o [i \in 1..Len(sections) |-> UnassignSection(sections[i][2])]
  IN resetOverrides(newOverrides, processModuleOverridesV2(newOverrides, initialModule))


\* ------------------------------------------------------- the handlers
\* A handler works on the component's refs and queues state updates; c is the
\* record of what it reads and writes.
Component ==
  [ stagedCards |-> stagedCards, stagedCardsRef |-> stagedCardsRef,
    stagedOverrides |-> stagedOverrides, stagedOverridesRef |-> stagedOverridesRef,
    nextUid |-> nextUid, dueOverrides |-> FALSE, dueCards |-> FALSE, threw |-> FALSE ]

\* 83-86
setStagedCards(c, cardMap) ==
  [c EXCEPT !.stagedCardsRef = cardMap, !.stagedCards = cardMap, !.dueCards = TRUE]

\* 90-93
setStagedOverrides(c, list) ==
  [c EXCEPT !.stagedOverridesRef = Some(list), !.stagedOverrides = Some(list),
            !.dueOverrides = TRUE]

Throw(c) == [c EXCEPT !.threw = TRUE]

\* 271-286
generateCard(c, cardId, memo) ==
  LET newCard == [NewOverrideFor(EmptyAssignee, cardId, NullDates) EXCEPT
                    !.has_student_ids = FALSE,
                    !.student_ids = <<>>,
                    !.draft = TRUE,
                    !.rowKeyIsNumber = TRUE,
                    !.index = memo[Len(memo)].index + 1]
      oldOverrides == Filter(getAllOverridesFromCards(c.stagedCardsRef), HasAssigneeField)
  IN IF memo = <<>> THEN Throw(c)
     ELSE setStagedOverrides(c, Append(oldOverrides, newCard))

\* 307-310
addOverride(c, memo) ==
  IF memo = <<>> THEN Throw(c)
  ELSE generateCard(c, memo[Len(memo)].index + 1, memo)

\* 288-295; rowKey.toString() throws on an override with no rowKey
handleCardRemove(c, cardId) ==
  LET removed == setStagedCards(c, Filter(c.stagedCardsRef, LAMBDA e : e.key # cardId))
      list == c.stagedOverridesRef.value
  IN IF \E i \in 1..Len(list) : list[i].rowKey = NoKey
       THEN Throw(removed)
       ELSE setStagedOverrides(removed, Filter(list, LAMBDA o : o.rowKey # cardId))

\* 297-305
PutCard(cardMap, entry) ==
  LET others == Filter(cardMap, LAMBDA e : e.key # entry.key)
      before == Filter(others, LAMBDA e : e.key < entry.key)
      after == Filter(others, LAMBDA e : e.key > entry.key)
  IN before \o <<entry>> \o after

updateCard(c, cardId, newOverrides, cardDates) ==
  LET currentIndex == IF HasCard(c.stagedCardsRef, cardId)
                        THEN CardAt(c.stagedCardsRef, cardId).index ELSE NoIndex
  IN setStagedCards(c, PutCard(c.stagedCardsRef,
       [key |-> cardId, overrides |-> newOverrides, dates |-> cardDates,
        index |-> currentIndex]))

\* 325-352; newDate is EmptyDate for ''
SetDate(r, dateType, d) ==
  CASE dateType = "due_at" -> [r EXCEPT !.due_at = d]
    [] dateType = "unlock_at" -> [r EXCEPT !.unlock_at = d]
    [] dateType = "lock_at" -> [r EXCEPT !.lock_at = d]

handleDatesUpdate(c, cardId, dateType, newDate) ==
  LET card == CardAt(c.stagedCardsRef, cardId)
      date == IF newDate = EmptyDate THEN 0 ELSE newDate
      newOverrides == [i \in 1..Len(card.overrides) |->
                         SetDate(card.overrides[i], dateType, date)]
      newDates == SetDate(card.dates, dateType, date)
      updated == updateCard(c, cardId, newOverrides, newDates)
      list == c.stagedOverridesRef.value
      updatedOverrides == [i \in 1..Len(list) |->
                             IF list[i].rowKey = cardId
                               THEN SetDate(list[i], dateType, newDate) ELSE list[i]]
  IN setStagedOverrides(updated, updatedOverrides)

\* 371-383: replace the override staged under the same id, else push
ReplaceOrPush_push(list, newOverride) == Append(list, newOverride)

ReplaceOrPush(list, newOverride) ==
  LET existing == {i \in 1..Len(list) :
                     list[i].stagedOverrideId = newOverride.stagedOverrideId}
      existingOverrideIndex == CHOOSE i \in existing : \A j \in existing : i <= j
  IN IF existing # {} THEN [list EXCEPT ![existingOverrideIndex] = newOverride]
     ELSE Append(list, newOverride)

\* 354-389
handleAssigneeAddition(c, cardId, newAssignee) ==
  LET card == CardAt(c.stagedCardsRef, cardId)
      forCard == CardActionsHandleAssigneeAdd(newAssignee, card.overrides, cardId, card.dates)
      last == forCard[Len(forCard)]
      fresh == last.stagedOverrideId = 0
      newOverride == IF fresh THEN [last EXCEPT !.stagedOverrideId = c.nextUid] ELSE last
      updatedOverrides == ReplaceOrPush(c.stagedOverridesRef.value, newOverride)
  IN setStagedOverrides([c EXCEPT !.nextUid = IF fresh THEN @ + 1 ELSE @], updatedOverrides)

\* 408-415
StripAssignee(o) ==
  [o EXCEPT !.has_student_ids = FALSE, !.student_ids = <<>>, !.students = FALSE,
            !.course_section_id = 0, !.group_id = 0, !.noop_id = 0, !.course_id = 0]

\* 419-424: Object.values of a map keyed by stagedOverrideId
RECURSIVE UniqueByStagedId(_)
UniqueByStagedId(list) ==
  IF list = <<>> THEN <<>>
  ELSE LET init == UniqueByStagedId(SubSeq(list, 1, Len(list) - 1))
           o == list[Len(list)]
           at == {i \in 1..Len(init) : init[i].stagedOverrideId = o.stagedOverrideId}
       IN IF at = {} THEN Append(init, o)
          ELSE [init EXCEPT ![CHOOSE i \in at : TRUE] = o]

\* 395: override.rowKey !== cardId, cardId being a string
StrictlyDiffers(o, cardId) == o.rowKeyIsNumber \/ o.rowKey # cardId

\* 391-427; the delete statements write the card's first override in place, so
\* the non-targeted list, which holds references, sees what they wrote
handleAssigneeDeletion(c, cardId, tokenToRemove) ==
  LET card == CardAt(c.stagedCardsRef, cardId)
      remaining == CardActionsHandleAssigneeRemove(tokenToRemove, card.overrides)
      empties == remaining = <<>>
      existingOverrideData == StripAssignee(card.overrides[1])
      remainingCardOverrides == IF empties THEN <<existingOverrideData>> ELSE remaining
      written(cardMap) ==
        [i \in 1..Len(cardMap) |->
           IF cardMap[i].key = cardId
             THEN [cardMap[i] EXCEPT !.overrides[1] = existingOverrideData]
             ELSE cardMap[i]]
      c1 == IF empties
              THEN [c EXCEPT !.stagedCardsRef = written(@),
                             !.stagedCards = IF c.stagedCards = c.stagedCardsRef
                                               THEN written(@) ELSE @]
              ELSE c
      nonTargetedOverrides ==
        Filter(getAllOverridesFromCards(c1.stagedCardsRef),
               LAMBDA o : StrictlyDiffers(o, cardId))
  IN setStagedOverrides(c1, UniqueByStagedId(remainingCardOverrides \o nonTargetedOverrides))

\* 312-323
RECURSIVE DeleteAll(_, _, _)
DeleteAll(c, cardId, deletedAssignees) ==
  IF deletedAssignees = <<>> THEN c
  ELSE DeleteAll(handleAssigneeDeletion(c, cardId, Head(deletedAssignees)), cardId,
                 Tail(deletedAssignees))

handleChange(c, cardId, newAssignee, deletedAssignees) ==
  DeleteAll(IF ~newAssignee.empty THEN handleAssigneeAddition(c, cardId, newAssignee) ELSE c,
            cardId, deletedAssignees)

\* ------------------------------------------------------------ initial state
\* the override lists the owning form passes in; row keys are supplied by it
PreTagged == 90

SectionOverride(rowKey, section) ==
  [BlankOverride EXCEPT !.id = 10 + rowKey, !.rowKey = rowKey,
                        !.course_section_id = section]

StudentsOverride(rowKey, ids) ==
  [BlankOverride EXCEPT !.id = 10 + rowKey, !.rowKey = rowKey, !.has_student_ids = TRUE,
                        !.student_ids = ids, !.students = TRUE]

GroupOverride(rowKey, group) ==
  [BlankOverride EXCEPT !.id = 10 + rowKey, !.rowKey = rowKey, !.group_id = group]

InModule(o) == [o EXCEPT !.context_module_id = ModuleId]

\* the owning form stored the row key as a number
NumberKeyed(o) == [o EXCEPT !.rowKeyIsNumber = TRUE]

InitialOverrideLists ==
  { <<SectionOverride(0, 7)>>,
    <<[SectionOverride(0, 7) EXCEPT !.stagedOverrideId = PreTagged, !.due_at = 1],
      StudentsOverride(1, <<1>>)>>,
    <<InModule(SectionOverride(0, 7)), StudentsOverride(1, <<1>>)>>,
    <<InModule(StudentsOverride(0, <<1>>)), SectionOverride(1, 7)>>,
    <<NumberKeyed(SectionOverride(1, 8)), NumberKeyed(StudentsOverride(2, <<1>>))>> }

NoOp ==
  [ op |-> "none", cardId |-> NoKey, threw |-> FALSE, assignee |-> EmptyAssignee,
    deleted |-> <<>>, named |-> <<>>, overridesBefore |-> <<>>, cardsBefore |-> <<>>,
    memoBefore |-> <<>>, stagedBefore |-> <<>>, deletedAssignees |-> <<>> ]

\* the component before its first render, whatever its overrides prop
Constructed ==
  /\ stagedCards = <<>>
  /\ stagedOverrides = Null
  /\ initialState = Null
  /\ disabledOptionIds = <<>>
  /\ hasModuleOverrides = FALSE
  /\ moduleAssignees = <<>>
  /\ initialModuleOverrides = <<>>
  /\ stagedCardsRef = <<>>
  /\ stagedOverridesRef = Null
  /\ cards = <<>>
  /\ nextUid = 1
  /\ due = [mount |-> TRUE, overrides |-> FALSE, stagedOverrides |-> FALSE,
            stagedCards |-> FALSE]
  /\ synced = <<>>
  /\ assignToCards = <<>>
  /\ disabledOptionIdsRef = <<>>
  /\ stagedImportantDates = FALSE
  /\ initialCards = <<>>
  /\ lastOp = NoOp
  /\ ops = 0
  /\ dateEdits = 0
  /\ NoFetch(Some(<<>>))

Init == overrides \in InitialOverrideLists /\ Constructed

\* ------------------------------------------- one render and its effects
\* onSync(list, flag); list is undefined when the flag alone is reported
OnSync(list, flag) == [undefinedOverrides |-> FALSE, overrides |-> list, importantDates |-> flag]

OnSyncFlag(flag) == [undefinedOverrides |-> TRUE, overrides |-> <<>>, importantDates |-> flag]

\* 160: the sync effect reads the card map from the ref the projection just wrote,
\* not from the stagedCards of its render
SyncSource_rendered(cardMapRef, renderedCardMap) == renderedCardMap

SyncSource(cardMapRef, renderedCardMap) == cardMapRef

Commit ==
  /\ ~Idle /\ due # Unmounted
  /\ LET memoRuns == due.mount \/ due.stagedCards
         renderedCards == IF memoRuns THEN MemoCards(stagedCards, initialState) ELSE cards
         cardMap == IF memoRuns THEN CardsAfterRender(stagedCards) ELSE stagedCards
         cardMapRef == IF memoRuns /\ stagedCardsRef = stagedCards
                         THEN cardMap ELSE stagedCardsRef
         disabled == IF memoRuns THEN SelectedOptionIds(stagedCards) ELSE disabledOptionIds
         runTag == due.mount \/ due.overrides
         runEffects == due.mount \/ due.stagedOverrides
         tagged == TagOverrides(overrides, nextUid)
         projects == runEffects /\ ~stagedOverrides.null
         unique == ProjectCards(overrides, stagedOverrides.value, cardMap)
         projectedRef == IF projects THEN unique ELSE cardMapRef
         first == FirstProjection(projects, initialState)
         syncs == runEffects /\ ~SyncThrows(moduleAssignees, disabled)
         newOverrides == SyncOverrides(SyncSource(projectedRef, cardMap), moduleAssignees,
                                       disabled, initialModuleOverrides)
     IN /\ cards' = renderedCards
        /\ disabledOptionIds' = disabled
        /\ assignToCards' = IF due.mount \/ renderedCards # cards
                              THEN renderedCards ELSE assignToCards
        /\ disabledOptionIdsRef' = IF due.mount \/ disabled # disabledOptionIds
                                     THEN disabled ELSE disabledOptionIdsRef
        /\ stagedOverrides' = IF runTag THEN Some(tagged.list) ELSE stagedOverrides
        /\ nextUid' = IF runTag THEN tagged.next ELSE nextUid
        /\ stagedCards' = IF projects THEN unique ELSE cardMap
        /\ stagedCardsRef' = projectedRef
        /\ initialState' = IF first THEN Some(cloneObject(unique)) ELSE initialState
        /\ initialModuleOverrides' = IF first THEN ModuleOverridesOf(cloneObject(unique))
                                     ELSE initialModuleOverrides
        /\ hasModuleOverrides' = IF first THEN Len(ModuleOverridesOf(unique)) > 0
                                 ELSE hasModuleOverrides
        /\ moduleAssignees' = IF first THEN AllModuleAssignees(overrides)
                              ELSE moduleAssignees
        /\ stagedOverridesRef' = IF syncs THEN Some(newOverrides)
                                 ELSE IF runTag THEN Some(tagged.list)
                                 ELSE stagedOverridesRef
        /\ synced' = IF syncs THEN <<OnSync(newOverrides, stagedImportantDates)>>
                     ELSE <<>>
        /\ due' = IF runEffects /\ ~syncs
                     THEN Unmounted
                     ELSE [mount |-> FALSE, overrides |-> FALSE, stagedOverrides |-> runTag,
                           stagedCards |-> projects]
  /\ UNCHANGED <<overrides, stagedImportantDates, initialCards, lastOp, ops, dateEdits, FetchVars>>

\* ================================================== ItemAssignToTrayContent
UserOptions == {SectionOption(7), StudentOption(2), Everyone}

UserDates == {0, 1}

\* 1139-1141
allCardsAssigned == \A i \in 1..Len(assignToCards) : assignToCards[i].hasAssignees

\* 1010-1023: the first assignee that is not disabled
NewSelectedOption(assignees) ==
  Filter(assignees, LAMBDA a : ~Includes(disabledOptionIdsRef, a))

\* 1017-1040
ParsedCard(option) ==
  CASE option = Everyone ->
         IF hasModuleOverrides
           THEN [EmptyAssignee EXCEPT !.empty = FALSE, !.id = defaultSectionId,
                                      !.course_id = 1]
           ELSE [EmptyAssignee EXCEPT !.empty = FALSE, !.id = defaultSectionId,
                                      !.course_section_id = defaultSectionId]
    [] option[1] = "section" ->
         [EmptyAssignee EXCEPT !.empty = FALSE, !.id = option[2],
                               !.course_section_id = option[2]]
    [] option[1] = "student" ->
         [EmptyAssignee EXCEPT !.empty = FALSE, !.id = option[2]]
    [] option[1] = "group" ->
         [EmptyAssignee EXCEPT !.empty = FALSE, !.id = option[2], !.group_id = option[2]]
    [] option[1] = "mastery_paths" ->
         [EmptyAssignee EXCEPT !.empty = FALSE, !.noop_id = 1]

handleCustomAssigneesChangeAdded(assignees) ==
  IF NewSelectedOption(assignees) = <<>> THEN EmptyAssignee
  ELSE ParsedCard(NewSelectedOption(assignees)[1])

\* 1042-1060
handleCustomAssigneesChangeDeleted(deletedAssignees) ==
  [i \in 1..Len(deletedAssignees) |->
     DeletedAssignee(deletedAssignees[i][1], deletedAssignees[i][2])]

\* 1076, 1116: initialCards.find(card => card.key === cardId), as a list of
\* at most one card (empty for undefined)
InitialCard(cardId) == Filter(initialCards, LAMBDA c : c.key = cardId)

\* 1084-1085, 1131: {...card, highlightCard: !areEquals, isEdited: !areEquals};
\* the key isEdited is one no fetched or projected card has
MarkEdited(card, areEquals) ==
  [k \in DOMAIN card \cup {"isEdited"} |->
     CASE k = "highlightCard" -> ~areEquals
       [] k = "isEdited" -> ~areEquals
       [] OTHER -> card[k]]

\* 1075-1089; JSON.stringify of an undefined selection equals no string
TrayCardsAfterAssignment(cardId, selectedAssigneeIds) ==
  LET initial == InitialCard(cardId)
      areEquals == initial # <<>> /\ initial[1].selectedAssigneeIds = selectedAssigneeIds
  IN [i \in 1..Len(assignToCards) |->
        IF assignToCards[i].key = cardId
          THEN [MarkEdited(assignToCards[i], areEquals)
                  EXCEPT !.selectedAssigneeIds = selectedAssigneeIds,
                         !.hasAssignees = Len(selectedAssigneeIds) > 0]
          ELSE assignToCards[i]]

TrayCardAt(cardId) ==
  assignToCards[CHOOSE i \in 1..Len(assignToCards) : assignToCards[i].key = cardId]

TrayKeys == {assignToCards[i].key : i \in 1..Len(assignToCards)}

\* 982-983: findIndex answers -1 when no card has the key, and at(-1) is the
\* last card of the list (undefined, hence [], only when the list is empty)
cardSelectionOf(cardId) ==
  LET found == {i \in 1..Len(assignToCards) : assignToCards[i].key = cardId}
      cardIndex == IF found = {} THEN -1
                   ELSE (CHOOSE i \in found : \A j \in found : i <= j) - 1
      at == IF cardIndex >= 0 THEN cardIndex + 1 ELSE Len(assignToCards) + cardIndex + 1
  IN IF at \in 1..Len(assignToCards) THEN assignToCards[at].selectedAssigneeIds ELSE <<>>

\* what a handler leaves in the component
Leave(c) ==
  /\ stagedCards' = c.stagedCards
  /\ stagedCardsRef' = c.stagedCardsRef
  /\ stagedOverrides' = c.stagedOverrides
  /\ stagedOverridesRef' = c.stagedOverridesRef
  /\ nextUid' = c.nextUid
  /\ due' = [due EXCEPT !.stagedOverrides = c.dueOverrides, !.stagedCards = c.dueCards]

Op(name, cardId, c) ==
  [ NoOp EXCEPT !.op = name, !.cardId = cardId, !.threw = c.threw,
      !.overridesBefore = stagedOverridesRef.value, !.cardsBefore = stagedCardsRef,
      !.memoBefore = cards, !.stagedBefore = stagedOverrides.value ]

\* 954-958 with onAddCard = addOverride
AddCard ==
  /\ Idle /\ ops < MaxOps
  /\ allCardsAssigned
  /\ LET c == addOverride(Component, cards)
     IN /\ Leave(c)
        /\ lastOp' = Op("handleAddCard", NoKey, c)
  /\ ops' = ops + 1
  /\ synced' = <<>>
  /\ UNCHANGED <<overrides, initialState, disabledOptionIds, hasModuleOverrides,
                 moduleAssignees, initialModuleOverrides, cards, assignToCards,
                 disabledOptionIdsRef, stagedImportantDates, initialCards, dateEdits, FetchVars>>

\* 980-993 with onCardRemove = handleCardRemove; offered when more than one card
DeleteCard(cardId) ==
  /\ Idle /\ ops < MaxOps
  /\ Len(assignToCards) # 1
  /\ LET cardSelection == cardSelectionOf(cardId)
         c == handleCardRemove(Component, cardId)
     IN /\ disabledOptionIdsRef' =
             Filter(disabledOptionIdsRef, LAMBDA id : ~Includes(cardSelection, id))
        /\ assignToCards' = Filter(assignToCards, LAMBDA t : t.key # cardId)
        /\ Leave(c)
        /\ lastOp' = Op("handleDeleteCard", cardId, c)
  /\ ops' = ops + 1
  /\ synced' = <<>>
  /\ UNCHANGED <<overrides, initialState, disabledOptionIds, hasModuleOverrides,
                 moduleAssignees, initialModuleOverrides, cards,
                 stagedImportantDates, initialCards, dateEdits, FetchVars>>

\* 1073-1111 with onAssigneesChange = handleChange: the card's selection
\* loses the ids in gone and gains the option added (if any)
CardAssignment(cardId, added, gone) ==
  /\ Idle /\ ops < MaxOps
  /\ nextUid <= MaxUid
  /\ LET selected == TrayCardAt(cardId).selectedAssigneeIds
         deletedAssignees == Filter(selected, LAMBDA id : id \in gone)
         assignees == Filter(selected, LAMBDA id : id \notin gone) \o added
         newAssignee == handleCustomAssigneesChangeAdded(assignees)
         parsedDeleted == handleCustomAssigneesChangeDeleted(deletedAssignees)
         c == handleChange(Component, cardId, newAssignee, parsedDeleted)
     IN /\ gone \subseteq Range(selected)
        /\ Len(added) <= 1
        /\ Range(added) \cap Range(selected) = {}
        /\ added # <<>> \/ gone # {}
        /\ assignToCards' = TrayCardsAfterAssignment(cardId, assignees)
        /\ Leave(c)
        /\ lastOp' = [Op("handleCardAssignment", cardId, c) EXCEPT
                        !.assignee = newAssignee, !.deleted = parsedDeleted,
                        !.named = added, !.deletedAssignees = deletedAssignees]
  /\ ops' = ops + 1
  /\ synced' = <<>>
  /\ UNCHANGED <<overrides, initialState, disabledOptionIds, hasModuleOverrides,
                 moduleAssignees, initialModuleOverrides, cards, disabledOptionIdsRef,
                 stagedImportantDates, initialCards, dateEdits, FetchVars>>

\* 1113-1137 with onDatesChange = handleDatesUpdate; dateValue 0 is null
CardDate(card, dateAttribute) ==
  CASE dateAttribute = "due_at" -> card.due_at
    [] dateAttribute = "unlock_at" -> card.unlock_at
    [] dateAttribute = "lock_at" -> card.lock_at

\* 1116-1132: the card with the new date is compared, as JSON text, with the
\* snapshot's card of that key
TrayCardsAfterDates(cardId, dateAttribute, dateValue) ==
  [i \in 1..Len(assignToCards) |->
     IF assignToCards[i].key = cardId
       THEN LET currentCard == SetDate(assignToCards[i], dateAttribute, dateValue)
                areEquals == InitialCard(cardId) = <<currentCard>>
            IN MarkEdited(currentCard, areEquals)
       ELSE assignToCards[i]]

DatesChange(cardId, dateAttribute, dateValue) ==
  /\ Idle /\ ops < MaxOps /\ dateEdits < MaxDateEdits
  /\ CardDate(TrayCardAt(cardId), dateAttribute) # dateValue
  /\ LET c == handleDatesUpdate(Component, cardId, dateAttribute,
                                IF dateValue = 0 THEN EmptyDate ELSE dateValue)
     IN /\ assignToCards' = TrayCardsAfterDates(cardId, dateAttribute, dateValue)
        /\ Leave(c)
        /\ lastOp' = Op("handleDatesChange", cardId, c)
  /\ ops' = ops + 1
  /\ dateEdits' = dateEdits + 1
  /\ synced' = <<>>
  /\ UNCHANGED <<overrides, initialState, disabledOptionIds, hasModuleOverrides,
                 moduleAssignees, initialModuleOverrides, cards, disabledOptionIdsRef,
                 stagedImportantDates, initialCards, FetchVars>>

\* 429-436; the checkbox is enabled when an override of the ref has a due date (441)
ImportantDatesChange ==
  /\ Idle /\ ops < MaxOps
  /\ \E i \in 1..Len(stagedOverridesRef.value) : IsSet(stagedOverridesRef.value[i].due_at)
  /\ stagedImportantDates' = ~stagedImportantDates
  /\ synced' = <<OnSyncFlag(~stagedImportantDates)>>
  /\ lastOp' = Op("handleImportantDatesChange", NoKey, Component)
  /\ ops' = ops + 1
  /\ UNCHANGED <<overrides, stagedCards, stagedOverrides, initialState, disabledOptionIds,
                 hasModuleOverrides, moduleAssignees, initialModuleOverrides,
                 stagedCardsRef, stagedOverridesRef, cards, nextUid, due, assignToCards,
                 disabledOptionIdsRef, initialCards, dateEdits, FetchVars>>

\* 51, 120: the owning form passes another overrides list
OverridesChange(list) ==
  /\ Idle /\ ops < MaxOps
  /\ list # overrides
  /\ overrides' = list
  /\ due' = [due EXCEPT !.overrides = TRUE]
  /\ lastOp' = Op("overrides", NoKey, Component)
  /\ ops' = ops + 1
  /\ synced' = <<>>
  /\ UNCHANGED <<stagedCards, stagedOverrides, initialState, disabledOptionIds,
                 hasModuleOverrides, moduleAssignees, initialModuleOverrides,
                 stagedCardsRef, stagedOverridesRef, cards, nextUid, assignToCards,
                 disabledOptionIdsRef, stagedImportantDates, initialCards, dateEdits, FetchVars>>

Next ==
  \/ Commit
  \/ ImportantDatesChange
  \/ AddCard
  \/ \E cardId \in TrayKeys : DeleteCard(cardId)
  \/ \E cardId \in TrayKeys, added \in {<<>>} \cup {<<o>> : o \in UserOptions} :
        \E gone \in SUBSET Range(TrayCardAt(cardId).selectedAssigneeIds) :
          CardAssignment(cardId, added, gone)
  \/ \E cardId \in TrayKeys, dateAttribute \in DateTypes, dateValue \in UserDates :
        DatesChange(cardId, dateAttribute, dateValue)

Spec == Init /\ [][Next]_vars

\* ---------------------------- the component under an owner that changes the prop
PropOverrideLists ==
  { <<SectionOverride(0, 7)>>,
    <<InModule(SectionOverride(0, 7)), StudentsOverride(1, <<1>>)>> }

InitProps == Init /\ overrides \in PropOverrideLists

NextProps ==
  \/ Next
  \/ \E list \in PropOverrideLists : OverridesChange(list)

SpecProps == InitProps /\ [][NextProps]_vars

\* ------------------ the component given a module override that targets a group
GroupModuleLists ==
  { <<[InModule(GroupOverride(0, 3)) EXCEPT !.due_at = 1]>>,
    <<InModule(GroupOverride(0, 3)), SectionOverride(1, 7)>>,
    <<StudentsOverride(0, <<1>>), InModule(GroupOverride(1, 3))>> }

InitGroup == overrides \in GroupModuleLists /\ Constructed

SpecGroup == InitGroup /\ [][Next]_vars

\* ------------------------------------------ the tray on its own (no callbacks)
\* The tray of an item that has no content id yet: it fetches nothing (793) and
\* is given no defaultCards, onAddCard, onAssigneesChange, onDatesChange or
\* onCardRemove; card keys come from makeCardId (594).
TrayOp(name, cardId) == [NoOp EXCEPT !.op = name, !.cardId = cardId, !.memoBefore = assignToCards]

ReconcilerVars ==
  << overrides, stagedCards, stagedOverrides, initialState, disabledOptionIds,
     hasModuleOverrides, moduleAssignees, initialModuleOverrides, stagedCardsRef,
     stagedOverridesRef, cards, due, synced, stagedImportantDates >>

InitTray ==
  /\ overrides = <<>>
  /\ stagedCards = <<>>
  /\ stagedOverrides = Null
  /\ initialState = Null
  /\ disabledOptionIds = <<>>
  /\ hasModuleOverrides = FALSE
  /\ moduleAssignees = <<>>
  /\ initialModuleOverrides = <<>>
  /\ stagedCardsRef = <<>>
  /\ stagedOverridesRef = Null
  /\ cards = <<>>
  /\ nextUid = 1
  /\ due = [mount |-> FALSE, overrides |-> FALSE, stagedOverrides |-> FALSE,
            stagedCards |-> FALSE]
  /\ synced = <<>>
  /\ assignToCards = <<>>
  /\ disabledOptionIdsRef = <<>>
  /\ stagedImportantDates = FALSE
  /\ initialCards = <<>>
  /\ lastOp = NoOp
  /\ ops = 0
  /\ dateEdits = 0
  /\ NoFetch(Null)

\* 959-974
NewTrayCard(cardId) ==
  [ key |-> cardId, isValid |-> TRUE, highlightCard |-> FALSE, hasAssignees |-> FALSE,
    due_at |-> 0, unlock_at |-> 0, lock_at |-> 0, selectedAssigneeIds |-> <<>>,
    index |-> NoIndex, contextModuleId |-> 0 ]

\* 954-978 without onAddCard
TrayAddCard ==
  /\ ops < MaxTrayOps /\ nextUid <= MaxUid
  /\ allCardsAssigned
  /\ assignToCards' = Append(assignToCards, NewTrayCard(nextUid))
  /\ nextUid' = nextUid + 1
  /\ lastOp' = TrayOp("handleAddCard", nextUid)
  /\ ops' = ops + 1
  /\ UNCHANGED <<ReconcilerVars, disabledOptionIdsRef, initialCards, dateEdits, FetchVars>>

\* 980-993 without onCardRemove
TrayHandleDeleteCard(cardId) ==
  /\ ops < MaxTrayOps
  /\ LET cardSelection == cardSelectionOf(cardId)
     IN disabledOptionIdsRef' =
          Filter(disabledOptionIdsRef, LAMBDA id : ~Includes(cardSelection, id))
  /\ assignToCards' = Filter(assignToCards, LAMBDA t : t.key # cardId)
  /\ lastOp' = TrayOp("handleDeleteCard", cardId)
  /\ ops' = ops + 1
  /\ UNCHANGED <<ReconcilerVars, nextUid, initialCards, dateEdits, FetchVars>>

\* 1167, 1227: a card offers onDelete when it is not the only card
TrayDeleteCard(cardId) ==
  /\ Len(assignToCards) # 1
  /\ TrayHandleDeleteCard(cardId)

\* 1073-1111 without onAssigneesChange
TrayCardAssignment(cardId, added, gone) ==
  /\ ops < MaxTrayOps
  /\ LET selected == TrayCardAt(cardId).selectedAssigneeIds
         deletedAssignees == Filter(selected, LAMBDA id : id \in gone)
         assignees == Filter(selected, LAMBDA id : id \notin gone) \o added
         uniqueOptions == Unique(disabledOptionIdsRef \o assignees)
     IN /\ gone \subseteq Range(selected)
        /\ Len(added) <= 1
        /\ Range(added) \cap Range(selected) = {}
        /\ added # <<>> \/ gone # {}
        /\ assignToCards' = TrayCardsAfterAssignment(cardId, assignees)
        /\ disabledOptionIdsRef' =
             Filter(uniqueOptions, LAMBDA id : ~Includes(deletedAssignees, id))
        /\ lastOp' = [TrayOp("handleCardAssignment", cardId) EXCEPT
                        !.named = added, !.deletedAssignees = deletedAssignees]
  /\ ops' = ops + 1
  /\ UNCHANGED <<ReconcilerVars, nextUid, initialCards, dateEdits, FetchVars>>

\* 1113-1137 without onDatesChange
TrayDatesChange(cardId, dateAttribute, dateValue) ==
  /\ ops < MaxTrayOps /\ dateEdits < MaxDateEdits
  /\ CardDate(TrayCardAt(cardId), dateAttribute) # dateValue
  /\ assignToCards' = TrayCardsAfterDates(cardId, dateAttribute, dateValue)
  /\ lastOp' = TrayOp("handleDatesChange", cardId)
  /\ ops' = ops + 1
  /\ dateEdits' = dateEdits + 1
  /\ UNCHANGED <<ReconcilerVars, nextUid, disabledOptionIdsRef, initialCards, FetchVars>>

\* 995-1008: a card reports its validity, which is that of what it shows
TrayCardValidityChange(cardId) ==
  LET card == TrayCardAt(cardId)
      isValid == IsValidCard(card.selectedAssigneeIds,
                             [due_at |-> card.due_at, unlock_at |-> card.unlock_at,
                              lock_at |-> card.lock_at])
  IN /\ card.isValid # isValid
     /\ assignToCards' = [i \in 1..Len(assignToCards) |->
                            IF assignToCards[i].key = cardId
                              THEN [assignToCards[i] EXCEPT !.isValid = isValid]
                              ELSE assignToCards[i]]
     /\ lastOp' = TrayOp("handleCardValidityChange", cardId)
     /\ UNCHANGED <<ReconcilerVars, nextUid, disabledOptionIdsRef, initialCards, ops,
                    dateEdits, FetchVars>>

NextTray ==
  \/ TrayAddCard
  \/ \E cardId \in TrayKeys : TrayDeleteCard(cardId)
  \/ \E cardId \in TrayKeys, added \in {<<>>} \cup {<<o>> : o \in UserOptions} :
        \E gone \in SUBSET Range(TrayCardAt(cardId).selectedAssigneeIds) :
          TrayCardAssignment(cardId, added, gone)
  \/ \E cardId \in TrayKeys, dateAttribute \in DateTypes, dateValue \in UserDates :
        TrayDatesChange(cardId, dateAttribute, dateValue)
  \/ \E cardId \in TrayKeys : TrayCardValidityChange(cardId)

SpecTray == InitTray /\ [][NextTray]_vars

\* card ids handed out so far, or the next one, that no card of the list has
StaleKeys == (1..nextUid) \ TrayKeys

\* the tray on its own, where handleDeleteCard is also called with the id of
\* a card that is not in the list
NextStale ==
  \/ NextTray
  \/ \E cardId \in StaleKeys : TrayHandleDeleteCard(cardId)

SpecStale == InitTray /\ [][NextStale]_vars

\* ==================================== ItemAssignToTrayContent: the fetch, 677-952
MAX_PAGES == 10

\* prop changes in one run
MaxPropChanges == 1

\* overrides in the date details of one item
MaxFetchedOverrides == 2

\* ------------------------------------------------------ what the API serves
\* A response's json; a list field that is absent is Null, an absent scalar is
\* 0 or FALSE.
EmptyResponse ==
  [ id |-> 0, overrides |-> Null, blueprint_date_locks |-> Null,
    visible_to_everyone |-> FALSE, due_at |-> 0, unlock_at |-> 0, lock_at |-> 0,
    group_category_id |-> 0 ]

FetchedOverride(id) == [BlankOverride EXCEPT !.id = id]

FetchedStudents(id, ids) ==
  [FetchedOverride(id) EXCEPT !.has_student_ids = TRUE, !.student_ids = ids]

FetchedSection(id, section) == [FetchedOverride(id) EXCEPT !.course_section_id = section]

\* page i of the item's date details: module overrides, then explicit ones
\* for the same students and section, then a course override, then one
\* section override per page
PageFor(i) ==
  [ EmptyResponse EXCEPT
      !.id = 500 + i,
      !.overrides =
        CASE i = 1 -> Some(<<InModule(FetchedStudents(101, <<1, 2>>)),
                             InModule(FetchedSection(102, 7))>>)
          [] i = 2 -> Some(<<FetchedStudents(103, <<1>>),
                             FetchedSection(104, 7),
                             [FetchedStudents(105, <<3>>) EXCEPT !.unassign_item = TRUE]>>)
          [] i = 3 -> Some(<<InModule(FetchedStudents(106, <<1>>)),
                             [FetchedOverride(107) EXCEPT !.course_id = 1]>>)
          [] i = 4 -> Null
          [] OTHER -> Some(<<[FetchedSection(100 + i, 40 + i) EXCEPT !.due_at = i]>>),
      !.blueprint_date_locks = IF i % 2 = 1 THEN Some(<<i>>) ELSE Null,
      !.visible_to_everyone = (i % 3 # 0),
      !.due_at = i,
      !.group_category_id = i ]

\* ------------------------------------------------------------ 822-832, 707-715
OrEmpty(list) == IF list.null THEN <<>> ELSE list.value

CombineOverrides_lastPage(acc, response) ==
  [response EXCEPT
     !.overrides = Some(OrEmpty(response.overrides)),
     !.blueprint_date_locks = Some(OrEmpty(response.blueprint_date_locks))]

CombineOverrides(acc, response) ==
  [response EXCEPT
     !.overrides = Some(OrEmpty(acc.overrides) \o OrEmpty(response.overrides)),
     !.blueprint_date_locks =
       Some(OrEmpty(acc.blueprint_date_locks) \o OrEmpty(response.blueprint_date_locks))]

CombineLocks(acc, response) ==
  [EmptyResponse EXCEPT
     !.blueprint_date_locks =
       Some(OrEmpty(acc.blueprint_date_locks) \o OrEmpty(response.blueprint_date_locks))]

\* allResponses.reduce(..., {})
RECURSIVE combinedResponse(_, _)
combinedResponse(kind, allResponses) ==
  IF allResponses = <<>> THEN EmptyResponse
  ELSE LET acc == combinedResponse(kind, SubSeq(allResponses, 1, Len(allResponses) - 1))
           response == allResponses[Len(allResponses)]
       IN IF kind = "overrides" THEN CombineOverrides(acc, response)
          ELSE CombineLocks(acc, response)

\* ------------------------------------------------------------------- 834-940
getOverriddenAssignees(list) ==
  [students |-> OverriddenStudents(list), sections |-> OverriddenSections(list)]

\* 881-889
FilteredStudents(o, targets) ==
  IF o.context_module_id # 0 /\ o.has_student_ids
    THEN Filter(o.student_ids, LAMBDA id : id \notin targets.students)
    ELSE o.student_ids

\* 888-902
FetchedOptions(o, targets) ==
  LET students == FilteredStudents(o, targets)
  IN [i \in 1..Len(students) |-> StudentOption(students[i])]
     \o (IF o.noop_id # 0 THEN <<MasteryPaths>> ELSE <<>>)
     \o (IF o.course_section_id # 0 THEN <<SectionOption(o.course_section_id)>> ELSE <<>>)
     \o (IF o.course_id # 0 THEN <<Everyone>> ELSE <<>>)
     \o (IF o.group_id # 0 THEN <<GroupOption(o.group_id)>> ELSE <<>>)

\* 868-870, 880-911: the override gets no card
NoCardFor_unassignedShown(o, targets) ==
  \/ /\ o.context_module_id # 0 /\ o.has_student_ids
     /\ Len(o.student_ids) > 0 /\ FilteredStudents(o, targets) = <<>>
  \/ o.has_student_ids /\ o.student_ids = <<>>
  \/ /\ o.context_module_id # 0 /\ o.course_section_id # 0
     /\ o.course_section_id \in targets.sections

NoCardFor(o, targets) ==
  \/ o.unassign_item
  \/ /\ o.context_module_id # 0 /\ o.has_student_ids
     /\ Len(o.student_ids) > 0 /\ FilteredStudents(o, targets) = <<>>
  \/ o.has_student_ids /\ o.student_ids = <<>>
  \/ /\ o.context_module_id # 0 /\ o.course_section_id # 0
     /\ o.course_section_id \in targets.sections

\* 912-928
FetchedCard(cardId, o, targets) ==
  [ key |-> cardId, isValid |-> TRUE, highlightCard |-> FALSE, hasAssignees |-> TRUE,
    due_at |-> o.due_at, unlock_at |-> o.unlock_at, lock_at |-> o.lock_at,
    selectedAssigneeIds |-> FetchedOptions(o, targets), index |-> NoIndex,
    contextModuleId |-> o.context_module_id, overrideId |-> o.id ]

\* 848-862
FetchedEveryoneCard(cardId, baseDates) ==
  [ key |-> cardId, isValid |-> TRUE, highlightCard |-> FALSE, hasAssignees |-> TRUE,
    due_at |-> baseDates.due_at, unlock_at |-> baseDates.unlock_at,
    lock_at |-> baseDates.lock_at, selectedAssigneeIds |-> <<Everyone>>,
    index |-> NoIndex, contextModuleId |-> 0, overrideId |-> baseDates.id ]

\* 865-931: the cards of the overrides, keys from makeCardId in call order
RECURSIVE OverrideCards(_, _, _)
OverrideCards(list, targets, cardId) ==
  IF list = <<>> THEN <<>>
  ELSE IF NoCardFor(Head(list), targets) THEN OverrideCards(Tail(list), targets, cardId)
  ELSE <<FetchedCard(cardId, Head(list), targets)>>
         \o OverrideCards(Tail(list), targets, cardId + 1)

\* 872-879
FetchedModuleAssignees(list) ==
  LET one(o) ==
        IF o.unassign_item \/ o.context_module_id = 0 THEN <<>>
        ELSE (IF o.course_section_id # 0 THEN <<SectionOption(o.course_section_id)>> ELSE <<>>)
             \o [i \in 1..Len(o.student_ids) |-> StudentOption(o.student_ids[i])]
  IN Flatten([i \in 1..Len(list) |-> one(list[i])])

\* 845, 863, 929: selectedOptionIds.push(...) for every card pushed
FetchedSelectedOptionIds_lastCard(fetchedCards) ==
  IF fetchedCards = <<>> THEN <<>>
  ELSE fetchedCards[Len(fetchedCards)].selectedAssigneeIds

FetchedSelectedOptionIds(fetchedCards) ==
  Flatten([i \in 1..Len(fetchedCards) |-> fetchedCards[i].selectedAssigneeIds])

\* 846: only add the regular everyone card if there isn't a course override
ShowsEveryoneCard_anyCourse(onlyOverrides, hasCourseOverride) == ~onlyOverrides

ShowsEveryoneCard(onlyOverrides, hasCourseOverride) ==
  ~onlyOverrides /\ ~hasCourseOverride

\* 834-931: what the overrides fetch derives from the combined response
DerivedState(dateDetailsApiResponse, firstCardId) ==
  LET list == OrEmpty(dateDetailsApiResponse.overrides)
      overriddenTargets == getOverriddenAssignees(list)
      onlyOverrides == ~dateDetailsApiResponse.visible_to_everyone
      hasCourseOverride == \E i \in 1..Len(list) : list[i].course_id # 0
      everyone == IF ShowsEveryoneCard(onlyOverrides, hasCourseOverride)
                    THEN <<FetchedEveryoneCard(firstCardId, dateDetailsApiResponse)>>
                    ELSE <<>>
      fetchedCards == everyone
                        \o OverrideCards(list, overriddenTargets, firstCardId + Len(everyone))
  IN [ cards |-> fetchedCards,
       selectedOptionIds |-> FetchedSelectedOptionIds(fetchedCards),
       allModuleAssignees |-> FetchedModuleAssignees(list),
       hasModuleOverride |-> \E i \in 1..Len(list) : list[i].context_module_id # 0,
       group_category_id |-> dateDetailsApiResponse.group_category_id,
       blueprint_date_locks |-> dateDetailsApiResponse.blueprint_date_locks ]

\* ------------------------------------------------------- the fetch effects
\* 696, 811: while (url && pageCount < MAX_PAGES)
LoopContinues_lateCap(url, pageCount) == url /\ pageCount <= MAX_PAGES

LoopContinues(url, pageCount) == url /\ pageCount < MAX_PAGES

\* 678-684 and 726: the blueprint-locks effect calls fetchAllPages
StartsLocksFetch(p) ==
  /\ ~(p.defaultCards.null \/ p.itemContentId = 0 \/ p.itemType # "assignment"
         \/ initialLoadRef)
  /\ ~hasFetched

\* 793 and 950: the overrides effect calls fetchAllPages
StartsOverridesFetch_unguarded(p) == p.itemContentId # 0 /\ ~hasFetched

StartsOverridesFetch(p) ==
  /\ ~(~p.defaultCards.null \/ p.itemContentId = 0)
  /\ ~hasFetched

\* the path of a page request: the item of itemTypeToApiURL (the course and the
\* item type of the path do not change during a fetch) and the page; NoUrl
\* is null
Url(item, page) == [item |-> item, page |-> page]

NoUrl == Url(0, 0)

\* 816: url = response.link?.next?.url || null
NextLink_samePage(url, hasNext) == IF hasNext THEN url ELSE NoUrl

NextLink(url, hasNext) == IF hasNext THEN Url(url.item, url.page + 1) ELSE NoUrl

\* 686-698, 800-813: fetchAllPages up to its first await; requests counts the
\* doFetchApi calls and url is the path of the pending one
NewFetch(kind, p) ==
  [ kind |-> kind, status |-> "awaiting", pageCount |-> 0, allResponses |-> <<>>,
    url |-> Url(p.itemContentId, 1), requests |-> 1 ]

\* a fetchAllPages call that returned: its locals are gone
Settled(kind, status) ==
  [ kind |-> kind, status |-> status, pageCount |-> 0, allResponses |-> <<>>,
    url |-> NoUrl, requests |-> 0 ]

GivenCards ==
  <<[ key |-> 50, isValid |-> TRUE, highlightCard |-> FALSE, hasAssignees |-> TRUE,
      due_at |-> 0, unlock_at |-> 0, lock_at |-> 0, selectedAssigneeIds |-> <<Everyone>>,
      index |-> NoIndex, contextModuleId |-> 0 ]>>

\* the props of the first render
PropsDomain ==
  { TrayProps(1, itemType, itemContentId, defaultCards) :
      itemType \in {"assignment", "quiz"},
      itemContentId \in {0, 5}, defaultCards \in {Null, Some(GivenCards)} }

\* what no step of the tray's fetch touches
FetchFrame ==
  << overrides, stagedCards, stagedOverrides, initialState, disabledOptionIds,
     initialModuleOverrides, stagedCardsRef, stagedOverridesRef, cards, due, synced,
     stagedImportantDates, lastOp, ops, dateEdits >>

\* the tray before its first effects, whatever its props
BlankTray ==
  /\ overrides = <<>>
  /\ stagedCards = <<>>
  /\ stagedOverrides = Null
  /\ initialState = Null
  /\ disabledOptionIds = <<>>
  /\ hasModuleOverrides = FALSE
  /\ moduleAssignees = <<>>
  /\ initialModuleOverrides = <<>>
  /\ stagedCardsRef = <<>>
  /\ stagedOverridesRef = Null
  /\ cards = <<>>
  /\ nextUid = 1
  /\ due = [mount |-> FALSE, overrides |-> FALSE, stagedOverrides |-> FALSE,
            stagedCards |-> FALSE]
  /\ synced = <<>>
  /\ assignToCards = <<>>
  /\ disabledOptionIdsRef = <<>>
  /\ stagedImportantDates = FALSE
  /\ initialCards = <<>>
  /\ lastOp = NoOp
  /\ ops = 0
  /\ dateEdits = 0
  /\ mounted = FALSE
  /\ fetches = <<>>
  /\ fetchInFlight = FALSE
  /\ hasFetched = FALSE
  /\ blueprintDateLocks = Null
  /\ overridesFetched = FALSE
  /\ groupCategoryId = 0
  /\ flashErrors = 0
  /\ dismissals = 0
  /\ propChanges = 0

InitFetch ==
  /\ BlankTray
  /\ props \in PropsDomain
  /\ initialLoadRef \in BOOLEAN

\* the effects of the first render, in source order: 677-728, 730-732, 779-785,
\* 787-790, 792-952; initHasModuleOverrides is not given
TrayMount ==
  /\ ~mounted
  /\ mounted' = TRUE
  /\ LET started == (IF StartsLocksFetch(props) THEN <<NewFetch("locks", props)>> ELSE <<>>)
                      \o (IF StartsOverridesFetch(props)
                            THEN <<NewFetch("overrides", props)>>
                          ELSE <<>>)
     IN /\ fetches' = fetches \o started
        /\ fetchInFlight' = (fetchInFlight \/ started # <<>>)
  /\ groupCategoryId' = 0
  /\ assignToCards' = IF props.defaultCards.null THEN assignToCards
                      ELSE props.defaultCards.value
  /\ overridesFetched' = ~props.defaultCards.null
  /\ disabledOptionIdsRef' = <<>>
  /\ UNCHANGED <<FetchFrame, props, hasFetched, initialLoadRef, blueprintDateLocks,
                 flashErrors, dismissals, propChanges, hasModuleOverrides,
                 moduleAssignees, nextUid, initialCards>>

\* the props that differ from p in one of the four
OneChanged(p) ==
  { TrayProps(courseId, p.itemType, p.itemContentId, p.defaultCards) :
      courseId \in {1, 2} \ {p.courseId} }
  \cup { TrayProps(p.courseId, itemType, p.itemContentId, p.defaultCards) :
           itemType \in {"assignment", "quiz"} \ {p.itemType} }
  \cup { TrayProps(p.courseId, p.itemType, itemContentId, p.defaultCards) :
           itemContentId \in {0, 5} \ {p.itemContentId} }
  \cup { TrayProps(p.courseId, p.itemType, p.itemContentId, defaultCards) :
           defaultCards \in {Null, Some(GivenCards)} \ {p.defaultCards} }

\* a render with another prop: the effects whose dependencies changed run again
\* (779-785 on defaultCards, 792-952 on any of the four)
PropsChange(p) ==
  /\ mounted /\ propChanges < MaxPropChanges
  /\ p \in OneChanged(props)
  /\ props' = p
  /\ propChanges' = propChanges + 1
  /\ IF p.defaultCards # props.defaultCards
       THEN /\ assignToCards' = IF p.defaultCards.null THEN assignToCards
                                ELSE p.defaultCards.value
            /\ overridesFetched' = ~p.defaultCards.null
       ELSE UNCHANGED <<assignToCards, overridesFetched>>
  /\ IF StartsOverridesFetch(p)
       THEN /\ fetches' = Append(fetches, NewFetch("overrides", p))
            /\ fetchInFlight' = TRUE
       ELSE UNCHANGED <<fetches, fetchInFlight>>
  /\ UNCHANGED <<FetchFrame, mounted, hasFetched, initialLoadRef, blueprintDateLocks,
                 groupCategoryId, flashErrors, dismissals, hasModuleOverrides,
                 moduleAssignees, nextUid, initialCards, disabledOptionIdsRef>>

\* 720-724, 944-948
Finally_noFlag ==
  /\ hasFetched' = hasFetched
  /\ fetchInFlight' = FALSE
  /\ initialLoadRef' = TRUE

Finally ==
  /\ hasFetched' = TRUE
  /\ fetchInFlight' = FALSE
  /\ initialLoadRef' = TRUE

\* 707-716: the locks fetch left its loop
FinishLocks(allResponses) ==
  /\ blueprintDateLocks' = combinedResponse("locks", allResponses).blueprint_date_locks
  /\ UNCHANGED <<hasModuleOverrides, moduleAssignees, nextUid, initialCards,
                 assignToCards, disabledOptionIdsRef, overridesFetched, groupCategoryId>>

\* 822-940: the overrides fetch left its loop
FinishOverrides(allResponses) ==
  LET derived == DerivedState(combinedResponse("overrides", allResponses), nextUid)
  IN /\ moduleAssignees' = derived.allModuleAssignees
     /\ hasModuleOverrides' = derived.hasModuleOverride
     /\ groupCategoryId' = derived.group_category_id
     /\ overridesFetched' = TRUE
     /\ blueprintDateLocks' = derived.blueprint_date_locks
     /\ disabledOptionIdsRef' = derived.selectedOptionIds
     /\ initialCards' = derived.cards
     /\ assignToCards' = derived.cards
     /\ nextUid' = nextUid + Len(derived.cards)

\* ------------------------------------------- the date details of other items
\* The kinds of override the API serves: section, module section, students,
\* module students, course, group, mastery path, unassigned students, an
\* override whose student list is empty, and a module group.
FetchedKinds == 1..11

FetchedKind(kind, id) ==
  CASE kind = 1 -> FetchedSection(id, 42)
    [] kind = 2 -> InModule(FetchedSection(id, 42))
    [] kind = 3 -> FetchedStudents(id, <<1>>)
    [] kind = 4 -> InModule(FetchedStudents(id, <<1>>))
    [] kind = 5 -> InModule(FetchedStudents(id, <<1, 2>>))
    [] kind = 6 -> [FetchedOverride(id) EXCEPT !.course_id = 1]
    [] kind = 7 -> [FetchedOverride(id) EXCEPT !.group_id = 3]
    [] kind = 8 -> [FetchedOverride(id) EXCEPT !.noop_id = 1]
    [] kind = 9 -> [FetchedStudents(id, <<1>>) EXCEPT !.unassign_item = TRUE]
    [] kind = 10 -> FetchedStudents(id, <<>>)
    [] OTHER -> InModule([FetchedOverride(id) EXCEPT !.group_id = 3])

\* item ids from FirstDetailsItem on name an item by its date details:
\* visible_to_everyone and the kinds of its overrides, in order
FirstDetailsItem == 100

KindBase == Cardinality(FetchedKinds) + 1

RECURSIVE EncodeKinds(_)
EncodeKinds(kinds) ==
  IF kinds = <<>> THEN 0 ELSE Head(kinds) + KindBase * EncodeKinds(Tail(kinds))

RECURSIVE DecodeKinds(_)
DecodeKinds(code) ==
  IF code = 0 THEN <<>> ELSE <<code % KindBase>> \o DecodeKinds(code \div KindBase)

DetailsItems ==
  { FirstDetailsItem + 2 * EncodeKinds(kinds) + visible :
      kinds \in UNION {[1..n -> FetchedKinds] : n \in 0..MaxFetchedOverrides},
      visible \in {0, 1} }

DetailsOf(item) ==
  [ visible_to_everyone |-> (item - FirstDetailsItem) % 2 = 1,
    kinds |-> DecodeKinds((item - FirstDetailsItem) \div 2) ]

\* the API serves such an item one override per page
DetailsPage(item, page) ==
  LET kinds == DetailsOf(item).kinds
  IN [ EmptyResponse EXCEPT
         !.id = item,
         !.overrides = IF page <= Len(kinds)
                         THEN Some(<<FetchedKind(kinds[page], 10 + page)>>)
                         ELSE Some(<<>>),
         !.visible_to_everyone = DetailsOf(item).visible_to_everyone,
         !.due_at = 1 ]

\* 813-814: response.json of the request for url
ResponseFor(url) ==
  IF url.item < FirstDetailsItem THEN PageFor(url.page)
  ELSE DetailsPage(url.item, url.page)

\* the request fetch i awaits, its (pageCount + 1)-th, resolves: 698-705 and
\* 813-820, then, when the loop ends, the rest of the try block and the finally
\* block
Respond(i, hasNext) ==
  /\ i \in 1..Len(fetches)
  /\ fetches[i].status = "awaiting"
  /\ LET f == fetches[i]
         allResponses == Append(f.allResponses, ResponseFor(f.url))
         url == NextLink(f.url, hasNext)
         pageCount == f.pageCount + 1
     IN IF LoopContinues(url # NoUrl, pageCount)
          THEN /\ fetches' = [fetches EXCEPT ![i] = [f EXCEPT !.allResponses = allResponses,
                                                              !.url = url,
                                                              !.requests = @ + 1,
                                                              !.pageCount = pageCount]]
               /\ UNCHANGED <<hasFetched, fetchInFlight, initialLoadRef,
                              blueprintDateLocks, hasModuleOverrides, moduleAssignees,
                              nextUid, initialCards, assignToCards, disabledOptionIdsRef,
                              overridesFetched, groupCategoryId>>
          ELSE /\ fetches' = [fetches EXCEPT ![i] = Settled(f.kind, "done")]
               /\ IF f.kind = "overrides" THEN FinishOverrides(allResponses)
                  ELSE FinishLocks(allResponses)
               /\ Finally
  /\ UNCHANGED <<FetchFrame, props, mounted, flashErrors, dismissals, propChanges>>

\* the request fetch i awaits is rejected: 717-724, 941-948
Fail(i) ==
  /\ i \in 1..Len(fetches)
  /\ fetches[i].status = "awaiting"
  /\ fetches' = [fetches EXCEPT ![i] = Settled(fetches[i].kind, "failed")]
  /\ flashErrors' = flashErrors + 1
  /\ dismissals' = dismissals + 1
  /\ Finally
  /\ UNCHANGED <<FetchFrame, props, mounted, propChanges, blueprintDateLocks,
                 hasModuleOverrides, moduleAssignees, nextUid, initialCards,
                 assignToCards, disabledOptionIdsRef, overridesFetched, groupCategoryId>>

\* at most one fetch per effect run
FetchSlots == 1..(MaxPropChanges + 1)

NextFetch ==
  \/ TrayMount
  \/ \E p \in OneChanged(props) : PropsChange(p)
  \/ \E i \in FetchSlots, hasNext \in BOOLEAN : Respond(i, hasNext)
  \/ \E i \in FetchSlots : Fail(i)

SpecFetch == InitFetch /\ [][NextFetch]_vars

\* the overrides fetch of each item of DetailsItems, all its pages served
InitDetails ==
  /\ BlankTray
  /\ props \in {TrayProps(1, "assignment", item, Null) : item \in DetailsItems}
  /\ initialLoadRef = FALSE

\* the next link is present while the item has overrides left
MorePages(i) ==
  /\ i \in 1..Len(fetches)
  /\ fetches[i].url.page < Len(DetailsOf(fetches[i].url.item).kinds)

NextDetails ==
  \/ TrayMount
  \/ \E i \in FetchSlots : Respond(i, MorePages(i))
  \/ \E i \in FetchSlots : Fail(i)

SpecDetails == InitDetails /\ [][NextDetails]_vars

\* the items whose cards are edited in the tray after the fetch: one section
\* override or one student override, visible to everyone or not
EditedItems ==
  { FirstDetailsItem + 2 * EncodeKinds(kinds) + visible :
      kinds \in {<<1>>, <<3>>}, visible \in {0, 1} }

InitEdits ==
  /\ BlankTray
  /\ props \in {TrayProps(1, "assignment", item, Null) : item \in EditedItems}
  /\ initialLoadRef = FALSE

\* the tray on its own (no onAssigneesChange, no onDatesChange): the fetch, then
\* the user's edits of the fetched cards
NextEdits ==
  \/ TrayMount
  \/ \E i \in FetchSlots : Respond(i, MorePages(i))
  \/ \E cardId \in TrayKeys, added \in {<<>>} \cup {<<o>> : o \in UserOptions} :
        \E gone \in SUBSET Range(TrayCardAt(cardId).selectedAssigneeIds) :
          TrayCardAssignment(cardId, added, gone)
  \/ \E cardId \in TrayKeys, dateAttribute \in DateTypes, dateValue \in UserDates :
        TrayDatesChange(cardId, dateAttribute, dateValue)

SpecEdits == InitEdits /\ [][NextEdits]_vars

\* while a request is pending, one is eventually answered or rejected
Settle == \E i \in FetchSlots : Fail(i) \/ (\E hasNext \in BOOLEAN : Respond(i, hasNext))

SpecFetchFair == SpecFetch /\ WF_vars(Settle)

\* ============================================================ properties
StagedList == stagedOverrides.value

\* the state a handler leaves, before the render that follows it
JustRan(name) == lastOp.op = name /\ ~lastOp.threw /\ (due.stagedOverrides \/ due.stagedCards)

RowOverrides(list, cardId) == Filter(list, LAMBDA o : o.rowKey = cardId)

\* the override handleAssigneeAddition built in the last handleCardAssignment
AddedOverride ==
  LET card == CardAt(lastOp.cardsBefore, lastOp.cardId)
      forCard == CardActionsHandleAssigneeAdd(lastOp.assignee, card.overrides,
                                              lastOp.cardId, card.dates)
  IN forCard[Len(forCard)]

\* an addition alone, of an override whose stagedOverrideId is already staged
ReAddition ==
  /\ JustRan("handleCardAssignment")
  /\ ~lastOp.assignee.empty /\ lastOp.deleted = <<>>
  /\ AddedOverride.stagedOverrideId # 0
  /\ \E i \in 1..Len(lastOp.overridesBefore) :
       lastOp.overridesBefore[i].stagedOverrideId = AddedOverride.stagedOverrideId

C2_EveryStagedOverrideTagged ==
  /\ \A i \in 1..Len(StagedList) : StagedList[i].stagedOverrideId # 0
  /\ LET tagged == TagOverrides(overrides, nextUid)
     IN TagOverrides(tagged.list, tagged.next) = tagged

TrayCardDates(card) ==
  [due_at |-> card.due_at, unlock_at |-> card.unlock_at, lock_at |-> card.lock_at]

\* C3: a card with no selected assignee has isValid = false, and a card with
\* an assignee and no date error has isValid = true; this is so for the cards
\* the reconciler renders and for the cards the tray holds.
C3_ValidIffAssigned ==
  \A list \in {cards, assignToCards} :
    \A i \in 1..Len(list) :
      /\ list[i].selectedAssigneeIds = <<>> => ~list[i].isValid
      /\ (list[i].selectedAssigneeIds # <<>> /\ ~HasDateErrors(TrayCardDates(list[i])))
           => list[i].isValid

\* the assignee a card had was its only one, and the last operation deleted it
LastAssigneeDeleted ==
  /\ JustRan("handleCardAssignment")
  /\ lastOp.assignee.empty /\ Len(lastOp.deletedAssignees) = 1
  /\ AssigneeSet(CardAt(lastOp.cardsBefore, lastOp.cardId).overrides)
       = Range(lastOp.deletedAssignees)

\* C4: when handleAssigneeDeletion removes the only remaining assignee of a
\* card, the staged list holds exactly one override of that card, which has
\* none of student_ids, students, course_section_id, group_id, noop_id and
\* course_id, and whose dates are the dates the card had before the deletion.
C4_PlaceholderKeepsDates ==
  LastAssigneeDeleted =>
    LET row == RowOverrides(StagedList, lastOp.cardId)
    IN /\ Len(row) = 1
       /\ ~HasAssigneeField(row[1])
       /\ ~row[1].has_student_ids /\ ~row[1].students
       /\ row[1].course_section_id = 0 /\ row[1].group_id = 0
       /\ row[1].noop_id = 0 /\ row[1].course_id = 0
       /\ datesFromOverride(row[1]) = CardAt(lastOp.cardsBefore, lastOp.cardId).dates

\* C5: after each projection the disabled-option ids, as a set, are the union
\* of the selectedAssigneeIds of all rendered cards.
C5_DisabledIsUnionOfSelections ==
  Range(disabledOptionIds) =
    UNION {Range(cards[i].selectedAssigneeIds) : i \in 1..Len(cards)}

\* two cards, one of them with two overrides, all claiming assignees
C5_Witness ==
  /\ Len(cards) = 2
  /\ \A i \in 1..2 : cards[i].selectedAssigneeIds # <<>>
  /\ \E i \in 1..2 : Len(cards[i].selectedAssigneeIds) = 2
  /\ Cardinality(Range(disabledOptionIds)) = 3
  /\ lastOp.op = "handleCardAssignment"

\* C6: no option id is selected on two cards, and an assignment that names an
\* id another card has claimed neither adds it to the card's selection nor
\* reports it through onAssigneesChange.
C6_NoAssigneeOnTwoCards ==
  /\ \A i, j \in 1..Len(assignToCards) :
       i # j => Range(assignToCards[i].selectedAssigneeIds)
                  \cap Range(assignToCards[j].selectedAssigneeIds) = {}
  /\ \A k \in 1..Len(lastOp.named) :
       (/\ lastOp.op = "handleCardAssignment"
        /\ \E i \in 1..Len(lastOp.memoBefore) :
             /\ lastOp.memoBefore[i].key # lastOp.cardId
             /\ Includes(lastOp.memoBefore[i].selectedAssigneeIds, lastOp.named[k]))
         => lastOp.assignee.empty

\* the reported list holds the unassign entry of module assignee a
UnassignEmitted(list, a) ==
  \E i \in 1..Len(list) :
    /\ list[i].unassign_item
    /\ \/ a[1] = "section" /\ list[i].course_section_id = a[2]
       \/ a[1] = "student" /\ Includes(list[i].student_ids, a[2])

\* C7: when a module-inherited section or student is removed, so that no card
\* claims it any more, the list reported through onSync for that removal holds
\* the synthesized unassign_item entry for it.
C7_RemovedModuleAssigneeIsUnassigned ==
  (Len(synced) = 1 /\ ~synced[1].undefinedOverrides) =>
    \A k \in 1..Len(moduleAssignees) :
      moduleAssignees[k] \notin Range(SelectedOptionIds(stagedCardsRef))
        => UnassignEmitted(synced[1].overrides, moduleAssignees[k])

SameStaged(a, b) ==
  /\ a.stagedOverrideId = b.stagedOverrideId /\ a.rowKey = b.rowKey
  /\ OptionsOfOverride(a) = OptionsOfOverride(b)
  /\ datesFromOverride(a) = datesFromOverride(b)

\* C9: handleCardRemove(cardId) leaves no card and no staged override with
\* that row key, and every staged override of another row key stays staged
\* with its assignees and dates.
C9_CardRemoved ==
  (lastOp.op = "handleDeleteCard" /\ (due.stagedOverrides \/ due.stagedCards)) =>
    /\ ~HasCard(stagedCardsRef, lastOp.cardId)
    /\ RowOverrides(StagedList, lastOp.cardId) = <<>>
    /\ \A i \in 1..Len(lastOp.stagedBefore) :
         lastOp.stagedBefore[i].rowKey # lastOp.cardId
           => \E j \in 1..Len(StagedList) : SameStaged(StagedList[j], lastOp.stagedBefore[i])

MaxIndex(memo) == CHOOSE n \in {memo[i].index : i \in 1..Len(memo)} :
                    \A i \in 1..Len(memo) : memo[i].index <= n

\* C10: addOverride appends exactly one card: it has no assignees, its index
\* is the largest index plus one, its key is the key of no earlier card, and
\* the staged overrides of the earlier cards that target an assignee are kept.
C10_OneNewCard ==
  (lastOp.op = "handleAddCard" /\ ~lastOp.threw /\ Idle) =>
    /\ Len(cards) = Len(lastOp.memoBefore) + 1
    /\ \E i \in 1..Len(cards) :
         /\ \A j \in 1..Len(lastOp.memoBefore) : lastOp.memoBefore[j].key # cards[i].key
         /\ cards[i].selectedAssigneeIds = <<>>
         /\ cards[i].index = MaxIndex(lastOp.memoBefore) + 1
    /\ \A i \in 1..Len(lastOp.stagedBefore) :
         (HasAssigneeField(lastOp.stagedBefore[i]) /\ lastOp.stagedBefore[i].rowKey # NoKey)
           => \E j \in 1..Len(StagedList) :
                StagedList[j].stagedOverrideId = lastOp.stagedBefore[i].stagedOverrideId

\* one per-field edit ran: a date edit, one addition or one deletion
OneFieldEdit ==
  \/ JustRan("handleDatesChange")
  \/ /\ JustRan("handleCardAssignment")
     /\ \/ ~lastOp.assignee.empty /\ lastOp.deleted = <<>>
        \/ lastOp.assignee.empty /\ Len(lastOp.deleted) = 1

\* the staged overrides of row k are those card k held before the operation
RowUnchanged(k) ==
  LET before == CardAt(lastOp.cardsBefore, k).overrides
      after == RowOverrides(StagedList, k)
  IN /\ \A i \in 1..Len(before) : \E j \in 1..Len(after) : SameStaged(after[j], before[i])
     /\ \A j \in 1..Len(after) : \E i \in 1..Len(before) : SameStaged(after[j], before[i])

\* C11: a per-field edit on card C (handleDatesUpdate, handleAssigneeAddition,
\* handleAssigneeDeletion) leaves the overrides, assignees and dates of every
\* other card unchanged, and after handleAssigneeDeletion(C, t) no staged
\* override of card C targets t, whether the stored row key is a number or a
\* string.
C11_EditTouchesOnlyItsCard ==
  /\ OneFieldEdit =>
       \A k \in CardKeys(lastOp.cardsBefore) \ {lastOp.cardId} : RowUnchanged(k)
  /\ (OneFieldEdit /\ Len(lastOp.deleted) = 1) =>
       lastOp.deletedAssignees[1]
         \notin AssigneeSet(RowOverrides(StagedList, lastOp.cardId))

\* the option ids handleChange was given to add
AddedTargets ==
  IF lastOp.assignee.empty THEN {}
  ELSE Range(OptionsOfOverride(NewOverrideFor(lastOp.assignee, lastOp.cardId, NullDates)))

\* C12: one handleChange(C, added, deleted) call, with an added assignee and/or
\* several deleted ones, ends in a staged list whose targets for card C are
\* the previous targets of C plus the added assignee minus every deleted
\* assignee: no addition is lost and no deleted assignee reappears.
C12_ChangeAppliesEveryStep ==
  JustRan("handleCardAssignment") =>
    AssigneeSet(RowOverrides(StagedList, lastOp.cardId))
      = (AssigneeSet(CardAt(lastOp.cardsBefore, lastOp.cardId).overrides)
           \cup AddedTargets) \ Range(lastOp.deletedAssignees)

\* the render about to run projects a non-null staged override list
ProjectionDue == (due.mount \/ due.stagedOverrides) /\ ~stagedOverrides.null

\* C13: the initial snapshot (initialState and the initial module overrides)
\* is written exactly once, by the first projection of a non-null staged
\* override list, and no later step (prop change, edit, in-place date edit on
\* the live cards, render) changes it.
C13_SnapshotWrittenOnce ==
  [][/\ ~initialState.null =>
          /\ initialState' = initialState
          /\ initialModuleOverrides' = initialModuleOverrides
     /\ (initialState.null /\ ~ProjectionDue) =>
          /\ initialState'.null
          /\ initialModuleOverrides' = <<>>
     /\ (initialState.null /\ ProjectionDue) =>
          /\ ~initialState'.null
          /\ initialState'.value = stagedCardsRef'
          /\ initialModuleOverrides' = ModuleOverridesOf(initialState'.value)
    ]_vars

\* after the snapshot the prop changed, a date was edited in place and the
\* live cards no longer equal the snapshot
C13_Witness ==
  /\ ~initialState.null /\ Idle
  /\ lastOp.op = "handleDatesChange"
  /\ \E i \in 1..Len(initialState.value) :
       /\ initialState.value[i].key = lastOp.cardId
       /\ HasCard(stagedCardsRef, lastOp.cardId)
       /\ CardAt(stagedCardsRef, lastOp.cardId).dates # initialState.value[i].dates
  /\ ModuleOverridesOf(stagedCardsRef) # initialModuleOverrides
  /\ Len(overrides) # Len(getAllOverridesFromCards(initialState.value))

\* ----------------------------------------------------------------- the fetch
OverrideFetches == {i \in 1..Len(fetches) : fetches[i].kind = "overrides"}

\* C14: the override fetch executes at most once per mount: whatever renders
\* and changes of courseId, itemContentId, itemType or defaultCards follow the
\* start of a fetch, also while it is in flight, no second one is started.
C14_OverrideFetchAtMostOnce == Cardinality(OverrideFetches) <= 1

\* a fetchAllPages call of this step
FetchStarted == Len(fetches') > Len(fetches)

\* C15 as stated: a render whose defaultCards is supplied starts no fetch, so
\* no request is issued, whatever the item type and item id.
C15_NoRequestWithDefaultCards ==
  [][~props'.defaultCards.null => ~FetchStarted]_vars

\* C15: a render whose defaultCards is supplied never starts the overrides
\* fetch, whatever the item type and item id; the only fetch it starts is the
\* blueprint-locks fetch of the first render, for an assignment with an item
\* id whose initialLoadRef is not yet set.
C15_OnlyLocksFetchWithDefaultCards ==
  [][(~props'.defaultCards.null /\ FetchStarted) =>
       /\ ~mounted
       /\ props.itemType = "assignment" /\ props.itemContentId # 0 /\ ~initialLoadRef
       /\ fetches' = Append(fetches, NewFetch("locks", props))
    ]_vars

\* defaultCards is supplied and the blueprint-locks request is pending
C15_Witness ==
  /\ ~props.defaultCards.null
  /\ \E i \in 1..Len(fetches) : fetches[i].kind = "locks" /\ fetches[i].status = "awaiting"

Awaiting(i) == i \in 1..Len(fetches) /\ fetches[i].status = "awaiting"

\* the requests fetch i has issued, the pending one included
Requests(i) == fetches[i].pageCount + 1

\* C16: a paginated fetch issues at most 10 page requests, and it terminates:
\* every answer either settles the fetch or is followed by one more request,
\* and the answer to the 10th request settles it even when it carries a
\* next-page link.
C16_AtMostTenRequests ==
  /\ [](\A i \in FetchSlots : Awaiting(i) => Requests(i) <= 10)
  /\ [][\A i \in FetchSlots :
          (Awaiting(i) /\ fetches'[i] # fetches[i]) =>
            \/ ~Awaiting(i)'
            \/ Requests(i)' = Requests(i) + 1
            ]_vars
  /\ [][\A i \in FetchSlots :
          (Awaiting(i) /\ Requests(i) = 10 /\ fetches'[i] # fetches[i]) => ~Awaiting(i)'
       ]_vars

\* the 10th request is pending after nine answers that carried a next-page link
C16_Witness ==
  \E i \in FetchSlots : Awaiting(i) /\ Requests(i) = 10 /\ Len(fetches[i].allResponses) = 9

\* the pages fetch i has once its pending request is answered
PagesOf(i) == Append(fetches[i].allResponses, PageFor(fetches[i].pageCount + 1))

WithoutLists(response) ==
  [response EXCEPT !.overrides = Null, !.blueprint_date_locks = Null]

\* C17: for the n pages of an overrides fetch (1 <= n <= 10), the merged
\* response has the pages' overrides concatenated in page order, the pages'
\* blueprint_date_locks concatenated in page order (an absent list counting as
\* empty), and every other field as in the last page.
C17_MergeConcatenatesInPageOrder ==
  \A i \in FetchSlots :
    (Awaiting(i) /\ fetches[i].kind = "overrides") =>
      LET pages == PagesOf(i)
          n == Len(pages)
          merged == combinedResponse("overrides", pages)
      IN /\ n \in 1..10
         /\ merged.overrides =
              Some(Flatten([k \in 1..n |-> OrEmpty(pages[k].overrides)]))
         /\ merged.blueprint_date_locks =
              Some(Flatten([k \in 1..n |-> OrEmpty(pages[k].blueprint_date_locks)]))
         /\ WithoutLists(merged) = WithoutLists(pages[n])

\* ten pages, with overrides and locks on some and none on others, whose
\* merge has the first page's overrides first and the last page's last
C17_Witness ==
  \E i \in FetchSlots :
    /\ Awaiting(i) /\ fetches[i].kind = "overrides" /\ Len(PagesOf(i)) = 10
    /\ \E k \in 1..10 : PagesOf(i)[k].overrides.null
    /\ \E k \in 1..10 : PagesOf(i)[k].blueprint_date_locks.null
    /\ LET merged == combinedResponse("overrides", PagesOf(i))
       IN /\ Len(merged.overrides.value) = 13
          /\ Head(merged.overrides.value).id = 101
          /\ merged.overrides.value[13].id = 110
          /\ merged.blueprint_date_locks.value = <<1, 3, 5, 7, 9>>
          /\ merged.id = 510

Failed(i) == i \in 1..Len(fetches) /\ fetches[i].status = "failed"

\* what the overrides fetch derives from its pages and sets on success
DerivedVars ==
  << assignToCards, initialCards, disabledOptionIdsRef, moduleAssignees,
     hasModuleOverrides, blueprintDateLocks, groupCategoryId, overridesFetched >>

\* C18: when a page request of a fetch fails, whatever the pages fetched
\* before, the flash error is shown once and handleDismiss is invoked once,
\* nothing else shows or invokes them, none of the derived state (cards,
\* disabled options, module assignees, blueprint date locks) is set, and the
\* failed fetch is not retried: no fetch is started after a failure.
C18_FailureHandledOnce ==
  /\ [][\A i \in FetchSlots :
          (Awaiting(i) /\ Failed(i)') =>
            /\ flashErrors' = flashErrors + 1
            /\ dismissals' = dismissals + 1
            /\ UNCHANGED DerivedVars
       ]_vars
  /\ [][(flashErrors' # flashErrors \/ dismissals' # dismissals) =>
          \E i \in FetchSlots : Awaiting(i) /\ Failed(i)'
       ]_vars
  /\ [][(\E i \in FetchSlots : Failed(i)) =>
          /\ Len(fetches') = Len(fetches)
          /\ \A i \in FetchSlots : Failed(i) => fetches'[i] = fetches[i]
       ]_vars

\* the only fetch of the mount failed and a prop changed afterwards: one flash
\* error, one dismissal, no derived state, no second fetch
C18_Witness ==
  /\ Len(fetches) = 1 /\ Failed(1) /\ fetches[1].kind = "overrides"
  /\ propChanges = 1 /\ props.courseId = 2 /\ props.defaultCards.null
  /\ props.itemContentId # 0
  /\ flashErrors = 1 /\ dismissals = 1
  /\ assignToCards = <<>> /\ disabledOptionIdsRef = <<>> /\ moduleAssignees = <<>>
  /\ blueprintDateLocks.null /\ ~overridesFetched

LoadingLeft == ~fetchInFlight /\ hasFetched /\ initialLoadRef

\* C19: whenever a fetch is pending, eventually every started fetch has
\* settled, answered or rejected, in a state with fetchInFlight = false,
\* hasFetched = true and initialLoadRef set; the step that settles a fetch
\* already sets the three; and once a fetch was started and fetchInFlight is
\* false again it never becomes true during the mount.
C19_LoadingEntersAndLeavesOnce ==
  /\ (\E i \in FetchSlots : Awaiting(i))
       ~> ((\A i \in FetchSlots : ~Awaiting(i)) /\ LoadingLeft)
  /\ [][\A i \in FetchSlots : (Awaiting(i) /\ ~Awaiting(i)') => LoadingLeft']_vars
  /\ [][(fetches # <<>> /\ ~fetchInFlight) => ~fetchInFlight']_vars

\* a fetch that succeeded and one that failed, both with the loading state left
C19_Witness ==
  /\ LoadingLeft
  /\ \E i \in FetchSlots : Failed(i)
  /\ \E i \in FetchSlots : i \in 1..Len(fetches) /\ fetches[i].status = "done"

\* the merge of the first 10 pages
MergeOfTenPages ==
  [ PageFor(10) EXCEPT
      !.overrides = Some(Flatten([k \in 1..10 |-> OrEmpty(PageFor(k).overrides)])),
      !.blueprint_date_locks =
        Some(Flatten([k \in 1..10 |-> OrEmpty(PageFor(k).blueprint_date_locks)])) ]

\* C20: when the answer to the 10th request still carries a next-page link,
\* the overrides fetch stops there without taking the error path: it is done,
\* no flash error, no dismissal, and the cards are derived from the merge of
\* the first 10 pages.
C20_CapIsNotAnError ==
  [][\A i \in FetchSlots :
       (/\ Awaiting(i) /\ fetches[i].kind = "overrides" /\ Requests(i) = 10
        /\ fetches'[i] # fetches[i] /\ ~Failed(i)') =>
         /\ fetches'[i].status = "done"
         /\ flashErrors' = flashErrors /\ dismissals' = dismissals
         /\ assignToCards' = DerivedState(MergeOfTenPages, nextUid).cards
         /\ initialCards' = assignToCards'
         /\ overridesFetched'
    ]_vars

\* the fetch is done with the cards of ten pages, the last one for the 10th
\* page's section, and nothing was flashed or dismissed
C20_Witness ==
  /\ \E i \in FetchSlots : i \in 1..Len(fetches) /\ fetches[i].status = "done"
  /\ flashErrors = 0 /\ dismissals = 0 /\ hasFetched /\ ~fetchInFlight
  /\ Len(assignToCards) = 10
  /\ assignToCards[10].selectedAssigneeIds = <<SectionOption(50)>>
  /\ assignToCards[1].selectedAssigneeIds = <<StudentOption(2)>>
  /\ blueprintDateLocks = Some(<<1, 3, 5, 7, 9>>)

\* ------------------------------------------------------- the initial cards
Done(i) == i \in 1..Len(fetches) /\ fetches[i].status = "done"

\* the date details of the item the tray shows
Details == DetailsOf(props.itemContentId)

\* the overrides of the item, as the pages served them
DetailsOverrides ==
  [k \in 1..Len(Details.kinds) |-> FetchedKind(Details.kinds[k], 10 + k)]

\* the card of the implicit "everyone" assignment carries the item's own id
IsEveryoneCard(card) ==
  card.overrideId = props.itemContentId /\ card.selectedAssigneeIds = <<Everyone>>

\* C21: after the fetch the initial cards contain the implicit "everyone" card
\* exactly when visible_to_everyone is true and no override has a course_id;
\* with visible_to_everyone true and a single section override the list has
\* exactly 2 cards.
C21_EveryoneCardIffVisibleAndNoCourse ==
  Done(1) =>
    /\ (\E i \in 1..Len(initialCards) : IsEveryoneCard(initialCards[i]))
         <=> (/\ Details.visible_to_everyone
              /\ \A k \in 1..Len(DetailsOverrides) : DetailsOverrides[k].course_id = 0)
    /\ Cardinality({i \in 1..Len(initialCards) : IsEveryoneCard(initialCards[i])}) <= 1
    /\ (Details.visible_to_everyone /\ Details.kinds = <<1>>) =>
         /\ Len(initialCards) = 2
         /\ IsEveryoneCard(initialCards[1])
         /\ initialCards[2].selectedAssigneeIds = <<SectionOption(42)>>

\* the item is visible to everyone and has one section override: two cards
C21_Witness ==
  /\ Done(1) /\ Details.visible_to_everyone /\ Details.kinds = <<1>>
  /\ Len(initialCards) = 2 /\ assignToCards = initialCards

\* the students and sections the explicit (non-module) overrides target
ExplicitTargets == getOverriddenAssignees(DetailsOverrides)

\* the overrides the spec says get no card: unassigned ones, and module
\* overrides whose students are all targeted, or whose section is targeted,
\* by an explicit override
Superseded(o) ==
  \/ o.unassign_item
  \/ /\ o.context_module_id # 0 /\ o.has_student_ids
     /\ Range(o.student_ids) \subseteq ExplicitTargets.students
  \/ /\ o.context_module_id # 0 /\ o.course_section_id # 0
     /\ o.course_section_id \in ExplicitTargets.sections

HasNoStudentLeft(o) == o.has_student_ids /\ o.student_ids = <<>>

\* the ids of the overrides behind the cards, the everyone card left out
CardOverrideIds ==
  LET shown == Filter(initialCards, LAMBDA card : ~IsEveryoneCard(card))
  IN [i \in 1..Len(shown) |-> shown[i].overrideId]

IdsOf(list) == [i \in 1..Len(list) |-> list[i].id]

\* C22 as stated: besides the everyone card there is one card per fetched
\* override, in override order, except for unassigned overrides and
\* superseded module overrides; every other override yields a card.
C22_OneCardPerOverride ==
  Done(1) =>
    CardOverrideIds = IdsOf(Filter(DetailsOverrides, LAMBDA o : ~Superseded(o)))

\* C22: besides the everyone card there is one card per fetched override, in
\* override order, except for unassigned overrides, superseded module
\* overrides and overrides whose student_ids list is empty; every other
\* override yields a card.
C22_OneCardPerOverrideWithStudents ==
  Done(1) =>
    CardOverrideIds =
      IdsOf(Filter(DetailsOverrides, LAMBDA o : ~Superseded(o) /\ ~HasNoStudentLeft(o)))

\* an override whose student list is empty, then a section override: one
\* card, for the section
C22_Witness ==
  /\ Done(1) /\ Details.kinds = <<10, 1>> /\ ~Details.visible_to_everyone
  /\ Len(initialCards) = 1 /\ CardOverrideIds = <<12>>
  /\ initialCards[1].selectedAssigneeIds = <<SectionOption(42)>>

\* the assignees the item inherits from module overrides that are not
\* themselves unassigned
ModuleInherited ==
  UNION { LET o == DetailsOverrides[k]
          IN {StudentOption(id) : id \in Range(o.student_ids)}
               \cup (IF o.course_section_id # 0 THEN {SectionOption(o.course_section_id)}
                     ELSE {})
               \cup (IF o.group_id # 0 THEN {GroupOption(o.group_id)} ELSE {}) :
            k \in {j \in 1..Len(DetailsOverrides) :
                     /\ DetailsOverrides[j].context_module_id # 0
                     /\ ~DetailsOverrides[j].unassign_item} }

\* targeted by an explicit override, an unassigning one included
ExplicitlyTargeted(option) ==
  \/ option[1] = "student" /\ option[2] \in ExplicitTargets.students
  \/ option[1] = "section" /\ option[2] \in ExplicitTargets.sections

\* C23: after a successful fetch the disabled-option set is the union of the
\* selectedAssigneeIds of the initial cards, and every module-inherited
\* assignee that is neither explicitly overridden nor unassigned is in it.
C23_DisabledIsUnionOfInitialCards ==
  Done(1) =>
    /\ Range(disabledOptionIdsRef) =
         UNION {Range(initialCards[i].selectedAssigneeIds) : i \in 1..Len(initialCards)}
    /\ \A option \in ModuleInherited :
         ~ExplicitlyTargeted(option) => option \in Range(disabledOptionIdsRef)

\* module students 1 and 2 with an explicit override for student 1: student
\* 2 is inherited and disabled, with student 1 of the explicit card
C23_Witness ==
  /\ Done(1) /\ Details.kinds = <<5, 3>> /\ Details.visible_to_everyone
  /\ Range(disabledOptionIdsRef) = {Everyone, StudentOption(1), StudentOption(2)}
  /\ Len(initialCards) = 3

\* doFetchApi calls of fetch i not yet answered
Outstanding(i) == fetches[i].requests - Len(fetches[i].allResponses)

\* C24: the page requests of one fetch are strictly sequential: while the
\* fetch runs exactly one request is outstanding, never two; a further
\* request is issued only in the step that receives the response to the
\* pending one, and its path is the next link of that response.
C24_RequestsAreSequential ==
  /\ [](\A i \in FetchSlots : Awaiting(i) => Outstanding(i) = 1)
  /\ [][\A i \in FetchSlots :
          (Awaiting(i) /\ fetches'[i].requests > fetches[i].requests) =>
            /\ fetches'[i].requests = fetches[i].requests + 1
            /\ fetches'[i].allResponses =
                 Append(fetches[i].allResponses, ResponseFor(fetches[i].url))
            /\ fetches'[i].url = Url(fetches[i].url.item, fetches[i].url.page + 1)
       ]_vars

\* the third request of a fetch is pending, for the page the second response
\* linked to, while another fetch awaits its first page
C24_Witness ==
  \E i, j \in FetchSlots :
    /\ Awaiting(i) /\ fetches[i].requests = 3 /\ Len(fetches[i].allResponses) = 2
    /\ fetches[i].url = Url(5, 3) /\ fetches[i].allResponses[2] = PageFor(2)
    /\ Awaiting(j) /\ fetches[j].requests = 1

\* the dates and the selection a card shows
Shown(card) ==
  [ due_at |-> card.due_at, unlock_at |-> card.unlock_at, lock_at |-> card.lock_at,
    selected |-> Range(card.selectedAssigneeIds) ]

\* C25: every card of the tray that has an entry in the initial snapshot is
\* highlighted exactly when its dates or its assignee selection differ from that
\* entry, so a card changed and changed back is not highlighted
C25_HighlightedIffDiffers ==
  \A i \in 1..Len(assignToCards) :
    LET card == assignToCards[i]
        initial == InitialCard(card.key)
    IN initial # <<>> => (card.highlightCard <=> Shown(card) # Shown(initial[1]))

\* the render at hand runs the sync effect (159-201)
SyncRuns == due # Unmounted /\ (due.mount \/ due.stagedOverrides)

\* C26: with an initial module override that targets neither a section nor
\* students, every run of the sync effect completes: it raises no error, calls
\* onSync, and the list it emits has no unassign_item entry for that override
C26_GroupModuleOverrideTolerated ==
  [][SyncRuns =>
       /\ due' # Unmounted
       /\ Len(synced') = 1
       /\ \A i \in 1..Len(synced'[1].overrides) :
            ~synced'[1].overrides[i].unassign_item]_vars

\* C27: whenever no render or effect is pending, stagedOverridesRef.current is the
\* override list of the stagedOverrides state and stagedCardsRef.current is the
\* card map of the stagedCards state
C27_RefsMirrorState ==
  Idle => (stagedOverridesRef = stagedOverrides /\ stagedCardsRef = stagedCards)

\* a per-field edit of a card ran and every render and effect after it
FieldEditDone ==
  /\ Idle /\ ~lastOp.threw
  /\ lastOp.op \in {"handleCardAssignment", "handleDatesChange"}

\* C28: a card without assignees (a draft or a placeholder) that was in the card
\* map before a per-field edit of another card is still in the card map, with
\* the same dates, once that edit's renders and effects have run
C28_UnassignedCardSurvivesOtherEdits ==
  FieldEditDone =>
    \A i \in 1..Len(lastOp.cardsBefore) :
      LET card == lastOp.cardsBefore[i]
      IN (card.key # lastOp.cardId /\ AssigneeSet(card.overrides) = {})
           => /\ HasCard(stagedCards, card.key)
              /\ CardAt(stagedCards, card.key).dates = card.dates

\* the unassign_item entries of a list that name section s, or student t
UnassignEntriesOfSection(list, s) ==
  Filter(list, LAMBDA o : o.unassign_item /\ o.course_section_id = s)

UnassignEntriesOfStudent(list, t) ==
  Filter(list, LAMBDA o : o.unassign_item /\ o.has_student_ids /\ Includes(o.student_ids, t))

\* a list holds at most one unassign_item entry for each section and at most
\* one unassign_item student entry for each student
AtMostOneUnassignEntry(list) ==
  \A i \in 1..Len(list) :
    list[i].unassign_item =>
      /\ list[i].course_section_id # 0
           => Len(UnassignEntriesOfSection(list, list[i].course_section_id)) = 1
      /\ \A j \in 1..Len(list[i].student_ids) :
           Len(UnassignEntriesOfStudent(list, list[i].student_ids[j])) = 1

\* C29: every override list reported through onSync holds at most one
\* unassign_item entry per removed module section and per removed module
\* student, and the staged list holds no unassign_item entry synthesized for an
\* earlier report
C29_UnassignEntriesNotCarried ==
  /\ \A k \in 1..Len(synced) :
       ~synced[k].undefinedOverrides => AtMostOneUnassignEntry(synced[k].overrides)
  /\ ~stagedOverrides.null =>
       \A i \in 1..Len(StagedList) : ~StagedList[i].unassign_item

\* no handler has run yet: the renders and effects at hand are those of the mount
Mounting == lastOp.op = "none"

\* C30: while the component mounts with a non-empty overrides prop in which
\* every override targets an assignee, no onSync call reports an empty override
\* list
C30_NoEmptySyncOnMount ==
  (/\ Mounting
   /\ overrides # <<>>
   /\ \A i \in 1..Len(overrides) : HasAssigneeField(overrides[i]))
    => \A k \in 1..Len(synced) :
         ~synced[k].undefinedOverrides => synced[k].overrides # <<>>

\* ------------------------------------------------------------------ C31
SelectedOnCards == UNION {Range(assignToCards[i].selectedAssigneeIds) : i \in 1..Len(assignToCards)}

\* C31: in the tray without onAssigneesChange, after handleCardAssignment and
\* handleDeleteCard calls the disabled-option set is the union of the
\* selectedAssigneeIds of the remaining cards
C31_DisabledIsUnionOfSelections ==
  lastOp.op \in {"handleCardAssignment", "handleDeleteCard"}
    => Range(disabledOptionIdsRef) = SelectedOnCards

\* ------------------------------------------------------------------ C32
\* a step of handleDeleteCard with a card id that no card of the list has
StaleDelete ==
  /\ ops' = ops + 1
  /\ lastOp'.op = "handleDeleteCard"
  /\ lastOp'.cardId \notin TrayKeys

\* C32: handleDeleteCard with a card id that matches no current card leaves
\* the card list and the disabled-option set unchanged
C32_StaleDeleteChangesNothing ==
  [][StaleDelete => /\ assignToCards' = assignToCards
                    /\ disabledOptionIdsRef' = disabledOptionIdsRef]_vars

\* ------------------------------------------------------------------ C33
\* C33: once the card list is non-empty no step empties it (the list the tray
\* shows and the cards memo addOverride reads), and addOverride finds a last
\* card to take the next index from
C33_CardListStaysNonEmpty ==
  [][/\ assignToCards # <<>> => assignToCards' # <<>>
     /\ cards # <<>> => cards' # <<>>
     /\ lastOp'.op = "handleAddCard" => ~lastOp'.threw]_vars

====
